---- MODULE Spec2Model ----
(***************************************************************************)
(* A model of the MTS interpreter core: the Hindley-Milner inferencer with *)
(* row-polymorphic records and directional subtyping (src/src/infer.ts,    *)
(* with the type representation of types.ts, kept in src/unnamed/part_002) *)
(* and the tree-walking evaluator (src/src/cli.ts).                        *)
(*                                                                         *)
(* Types, schemes, substitutions and AST nodes are TLA+ records tagged by  *)
(* `kind`, as in the source.  A JavaScript Map or Set that the code        *)
(* iterates is a sequence in insertion order; a Map that is only looked up *)
(* is a function.  The two module-level counters of types.ts and the two   *)
(* constraint lists of TypeInferrer are threaded through the operators in  *)
(* a record `st`; st.err # "" stands for a TypeError being thrown: every   *)
(* operator leaves a state with an error untouched, which is how the       *)
(* exception unwinds.                                                      *)
(***************************************************************************)
EXTENDS Integers, Sequences, FiniteSets, TLC

----------------------------------------------------------------------------
(* types.ts: type constructors *)

TypeVar(id) == [kind |-> "TypeVar", id |-> id]
RowVar(id) == [kind |-> "RowVar", id |-> id]
\* Row.rowVar is optional: the absent tail of a closed row
NoRowVar == [kind |-> "NoRowVar"]
numberType == [kind |-> "NumberType"]
stringType == [kind |-> "StringType"]
booleanType == [kind |-> "BooleanType"]
nullType == [kind |-> "NullType"]
undefinedType == [kind |-> "UndefinedType"]
unitType == [kind |-> "UnitType"]
arrayType(elementType) == [kind |-> "ArrayType", elementType |-> elementType]
dictType(keyType, valueType) ==
  [kind |-> "DictType", keyType |-> keyType, valueType |-> valueType]
\* fields: the Map<string, Type> of a row, a sequence of [key, type] in
\* insertion order
objectType(fields, rowVar) ==
  [kind |-> "ObjectType", fields |-> fields, rowVar |-> rowVar]
functionType(paramTypes, returnType) ==
  [kind |-> "FunctionType", paramTypes |-> paramTypes, returnType |-> returnType]

\* const v = ...; followed by the statements that read v: the value is
\* computed once and handed to the rest of the function body
With(v, rest(_)) == CHOOSE r \in {rest(x) : x \in {v}} : TRUE

\* Map.has / Map.get / Map.set on a row's fields
FieldHas(fields, key) == \E i \in 1..Len(fields) : fields[i].key = key
FieldGet(fields, key) ==
  fields[CHOOSE i \in 1..Len(fields) : fields[i].key = key].type
FieldSet(fields, key, type) ==
  IF FieldHas(fields, key)
  THEN [i \in 1..Len(fields) |->
          IF fields[i].key = key THEN [key |-> key, type |-> type] ELSE fields[i]]
  ELSE Append(fields, [key |-> key, type |-> type])
FieldKeys(fields) == {fields[i].key : i \in 1..Len(fields)}

\* the empty Substitution (Map<number, Type>)
EmptySub == [id \in {} |-> numberType]
SingleSub(id, type) == [i \in {id} |-> type]

applyRowSubstitution(sub, rowVar) ==
  IF rowVar.id \in DOMAIN sub /\ sub[rowVar.id].kind = "RowVar"
  THEN sub[rowVar.id]
  ELSE rowVar

RECURSIVE applySubstitution(_, _)
applySubstitution(sub, type) ==
  CASE type.kind = "TypeVar" ->
         IF type.id \in DOMAIN sub THEN sub[type.id] ELSE type
    [] type.kind = "ArrayType" ->
         arrayType(applySubstitution(sub, type.elementType))
    [] type.kind = "DictType" ->
         dictType(applySubstitution(sub, type.keyType),
                  applySubstitution(sub, type.valueType))
    [] type.kind = "ObjectType" ->
         objectType(
           [i \in 1..Len(type.fields) |->
              [key |-> type.fields[i].key,
               type |-> applySubstitution(sub, type.fields[i].type)]],
           IF type.rowVar.kind = "RowVar"
           THEN applyRowSubstitution(sub, type.rowVar)
           ELSE NoRowVar)
    [] type.kind = "RowVar" ->
         IF type.id \in DOMAIN sub THEN sub[type.id] ELSE type
    [] type.kind = "FunctionType" ->
         functionType(
           [i \in 1..Len(type.paramTypes) |->
              applySubstitution(sub, type.paramTypes[i])],
           applySubstitution(sub, type.returnType))
    [] OTHER -> type

composeSubstitutions(s1, s2) ==
  [id \in DOMAIN s2 \cup DOMAIN s1 |->
     IF id \in DOMAIN s2 THEN applySubstitution(s1, s2[id]) ELSE s1[id]]

\* a JavaScript Set built by adding the members of seq in order
RECURSIVE Uniq(_)
Uniq(seq) ==
  IF seq = <<>> THEN <<>>
  ELSE LET front == Uniq(SubSeq(seq, 1, Len(seq) - 1))
           last == seq[Len(seq)]
       IN IF \E i \in 1..Len(front) : front[i] = last
          THEN front
          ELSE Append(front, last)
SeqToSet(seq) == {seq[i] : i \in 1..Len(seq)}

RECURSIVE ConcatAll(_)
ConcatAll(seqs) ==
  IF seqs = <<>> THEN <<>> ELSE Head(seqs) \o ConcatAll(Tail(seqs))

\* freeTypeVars, as the Set<number> it returns, in insertion order; the
\* id of a row tail is put into the same set as the type variable ids
RECURSIVE freeTypeVars(_)
freeTypeVars(type) ==
  CASE type.kind = "TypeVar" -> <<type.id>>
    [] type.kind = "ArrayType" -> freeTypeVars(type.elementType)
    [] type.kind = "DictType" ->
         Uniq(freeTypeVars(type.keyType) \o freeTypeVars(type.valueType))
    [] type.kind = "ObjectType" ->
         Uniq(ConcatAll([i \in 1..Len(type.fields) |->
                           freeTypeVars(type.fields[i].type)])
              \o (IF type.rowVar.kind = "RowVar" THEN <<type.rowVar.id>> ELSE <<>>))
    [] type.kind = "RowVar" -> <<type.id>>
    [] type.kind = "FunctionType" ->
         Uniq(ConcatAll([i \in 1..Len(type.paramTypes) |->
                           freeTypeVars(type.paramTypes[i])])
              \o freeTypeVars(type.returnType))
    [] OTHER -> <<>>

freeTypeVarsInScheme(scheme) ==
  SeqToSet(freeTypeVars(scheme.type))
    \ {scheme.typeVars[i].id : i \in 1..Len(scheme.typeVars)}

\* TypeEnv is a function from the bound names to their schemes
freeTypeVarsInEnv(env) ==
  UNION {freeTypeVarsInScheme(env[n]) : n \in DOMAIN env}

generalize(env, type) ==
  LET envFree == freeTypeVarsInEnv(env)
      typeFree == freeTypeVars(type)
      NotInEnv(id) == id \notin envFree
      kept == SelectSeq(typeFree, NotInEnv)
  IN [typeVars |-> [i \in 1..Len(kept) |-> TypeVar(kept[i])], type |-> type]

RECURSIVE typesEqual(_, _)
typesEqual(t1, t2) ==
  IF t1.kind # t2.kind THEN FALSE
  ELSE CASE t1.kind = "TypeVar" -> t1.id = t2.id
         [] t1.kind = "ArrayType" -> typesEqual(t1.elementType, t2.elementType)
         [] t1.kind = "DictType" ->
              /\ typesEqual(t1.keyType, t2.keyType)
              /\ typesEqual(t1.valueType, t2.valueType)
         [] t1.kind = "ObjectType" ->
              /\ Len(t1.fields) = Len(t2.fields)
              /\ \A i \in 1..Len(t1.fields) :
                    /\ FieldHas(t2.fields, t1.fields[i].key)
                    /\ typesEqual(t1.fields[i].type,
                                  FieldGet(t2.fields, t1.fields[i].key))
              /\ IF t1.rowVar.kind = "RowVar" /\ t2.rowVar.kind = "RowVar"
                 THEN t1.rowVar.id = t2.rowVar.id
                 ELSE t1.rowVar.kind # "RowVar" /\ t2.rowVar.kind # "RowVar"
         [] t1.kind = "RowVar" -> t1.id = t2.id
         [] t1.kind = "FunctionType" ->
              /\ Len(t1.paramTypes) = Len(t2.paramTypes)
              /\ \A i \in 1..Len(t1.paramTypes) :
                    typesEqual(t1.paramTypes[i], t2.paramTypes[i])
              /\ typesEqual(t1.returnType, t2.returnType)
         [] OTHER -> TRUE

----------------------------------------------------------------------------
(* infer.ts: unification.  A unifier result is [err, sub]; err # "" is the *)
(* TypeError thrown, named by the fixed head of its message.               *)

UOk(sub) == [err |-> "", sub |-> sub]
UErr(msg) == [err |-> msg, sub |-> EmptySub]

ErrOccurs == "Occurs check failed"
ErrCannotUnify == "Cannot unify types"
ErrRowVar == "Cannot unify row variable"
ErrArity == "Function arity mismatch"
ErrMissingSecond == "Cannot unify object types: missing fields in second object"
ErrMissingFirst == "Cannot unify object types: missing fields in first object"
ErrMissingFields == "missing fields"
ErrUndefinedVariable == "Undefined variable"
ErrNoProperty == "Property does not exist on object type"
ErrNoCases == "Match expression must have at least one case"
ErrEmptyGroup == "Let binding group must contain at least one binding"
ErrUnknownPrimitive == "Unknown primitive type"
ErrUnknownOperator == "Unknown operator"
ErrUnknownKind == "Unknown expression kind"
ErrUnsupportedTypeExpr == "Unsupported type expression"

occursCheckNever(varId, type) == FALSE

occursCheck(varId, type) ==
  IF varId \notin SeqToSet(freeTypeVars(type)) THEN FALSE
  ELSE IF type.kind = "ObjectType" THEN FALSE
  ELSE TRUE

unifyVariable(typeVar, type) ==
  IF type.kind = "TypeVar" /\ typeVar.id = type.id THEN UOk(EmptySub)
  ELSE IF occursCheck(typeVar.id, type) THEN UErr(ErrOccurs)
  ELSE UOk(SingleSub(typeVar.id, type))

unifyRowVariable(rowVar, type) ==
  IF type.kind = "RowVar" /\ rowVar.id = type.id THEN UOk(EmptySub)
  ELSE IF type.kind = "RowVar" THEN UOk(SingleSub(rowVar.id, type))
  ELSE UErr(ErrRowVar)

RECURSIVE unify(_, _)
RECURSIVE unifyEach(_, _, _, _)
RECURSIVE unifyFunction(_, _)
RECURSIVE unifyObjectWithRows(_, _)

\* the loop shared by unifyFunction, unifyObjectWithRows and the DictType
\* case: unify lefts[i] with rights[i] under the substitution so far and
\* compose the unifier into it; a throw ends the loop
unifyEach(lefts, rights, i, substitution) ==
  IF i > Len(lefts) THEN UOk(substitution)
  ELSE With(unify(applySubstitution(substitution, lefts[i]),
                  applySubstitution(substitution, rights[i])),
         LAMBDA mgu :
           IF mgu.err # "" THEN mgu
           ELSE unifyEach(lefts, rights, i + 1,
                          composeSubstitutions(mgu.sub, substitution)))

unifyFunction(func1, func2) ==
  IF Len(func1.paramTypes) # Len(func2.paramTypes) THEN UErr(ErrArity)
  ELSE unifyEach(Append(func1.paramTypes, func1.returnType),
                 Append(func2.paramTypes, func2.returnType), 1, EmptySub)

unifyObjectWithRows(obj1, obj2) ==
  LET InBoth(f) == FieldHas(obj2.fields, f.key)
      common == SelectSeq(obj1.fields, InBoth)
      lefts == [i \in 1..Len(common) |-> common[i].type]
      rights == [i \in 1..Len(common) |-> FieldGet(obj2.fields, common[i].key)]
      obj1OnlyFields == FieldKeys(obj1.fields) \ FieldKeys(obj2.fields)
      obj2OnlyFields == FieldKeys(obj2.fields) \ FieldKeys(obj1.fields)
  IN With(unifyEach(lefts, rights, 1, EmptySub), LAMBDA fieldsMgu :
       IF fieldsMgu.err # "" THEN fieldsMgu
       ELSE IF obj1OnlyFields # {} /\ obj2.rowVar.kind # "RowVar"
         THEN UErr(ErrMissingSecond)
       ELSE IF obj2OnlyFields # {} /\ obj1.rowVar.kind # "RowVar"
         THEN UErr(ErrMissingFirst)
       ELSE IF obj1.rowVar.kind = "RowVar" /\ obj2.rowVar.kind = "RowVar"
         THEN With(unifyRowVariable(obj1.rowVar, obj2.rowVar), LAMBDA rowMgu :
                IF rowMgu.err # "" THEN rowMgu
                ELSE UOk(composeSubstitutions(rowMgu.sub, fieldsMgu.sub)))
       ELSE fieldsMgu)

unify(type1, type2) ==
  IF typesEqual(type1, type2) THEN UOk(EmptySub)
  ELSE IF type1.kind = "TypeVar" THEN unifyVariable(type1, type2)
  ELSE IF type2.kind = "TypeVar" THEN unifyVariable(type2, type1)
  ELSE IF type1.kind = "FunctionType" /\ type2.kind = "FunctionType"
    THEN unifyFunction(type1, type2)
  ELSE IF type1.kind = "ArrayType" /\ type2.kind = "ArrayType"
    THEN unify(type1.elementType, type2.elementType)
  ELSE IF type1.kind = "DictType" /\ type2.kind = "DictType"
    THEN unifyEach(<<type1.keyType, type1.valueType>>,
                   <<type2.keyType, type2.valueType>>, 1, EmptySub)
  ELSE IF type1.kind = "ObjectType" /\ type2.kind = "ObjectType"
    THEN unifyObjectWithRows(type1, type2)
  ELSE IF type1.kind = "RowVar" THEN unifyRowVariable(type1, type2)
  ELSE IF type2.kind = "RowVar" THEN unifyRowVariable(type2, type1)
  ELSE UErr(ErrCannotUnify)

----------------------------------------------------------------------------
(* The mutable state an inference call works on:                           *)
(*   tv, rv   typeVarCounter and rowVarCounter of types.ts                 *)
(*   cs, fcs  TypeInferrer.constraints and .fieldAccessConstraints         *)
(*   err      the TypeError thrown, "" while none                          *)
(*   gens     a history, kept for the properties only: one entry per       *)
(*            scheme formed by inferBindingGroup, with the environment it  *)
(*            was generalized in, the type assumed for the name and        *)
(*            whether the group is inside the initializer of another group *)
(*            (open counts the initializers entered)                       *)
(*   calls    a history, kept for the properties only: one entry per call  *)
(*            site, with the two types handed to enforceSubtype and the    *)
(*            error it threw; the code keeps neither list                  *)

freshTypeVar(st) ==
  [type |-> TypeVar(st.tv),
   st |-> IF st.err # "" THEN st ELSE [st EXCEPT !.tv = @ + 1]]
freshRowVar(st) ==
  [type |-> RowVar(st.rv),
   st |-> IF st.err # "" THEN st ELSE [st EXCEPT !.rv = @ + 1]]

addConstraint(type1, type2, st) ==
  IF st.err # "" THEN st
  ELSE [st EXCEPT !.cs = Append(@, [left |-> type1, right |-> type2])]

addFieldAccessConstraint(objType, fieldName, fieldType, st) ==
  IF st.err # "" THEN st
  ELSE [st EXCEPT !.fcs = Append(@, [objectType |-> objType,
                                     fieldName |-> fieldName,
                                     fieldType |-> fieldType])]

throw(msg, st) == IF st.err # "" THEN st ELSE [st EXCEPT !.err = msg]

instantiateShared(scheme, st) == [type |-> scheme.type, st |-> st]

\* the quantified variables replaced by array types over themselves instead
\* of by fresh variables
instantiateWrapped(scheme, st) ==
  [type |-> applySubstitution(
              [id \in {scheme.typeVars[i].id : i \in 1..Len(scheme.typeVars)} |->
                 arrayType(TypeVar(id))],
              scheme.type),
   st |-> st]

\* instantiate(scheme): one fresh type variable per quantified variable
instantiate(scheme, st) ==
  LET n == Len(scheme.typeVars)
      sub == [id \in {scheme.typeVars[i].id : i \in 1..n} |->
                TypeVar(st.tv - 1 +
                  (CHOOSE i \in 1..n :
                     /\ scheme.typeVars[i].id = id
                     /\ \A j \in (i + 1)..n : scheme.typeVars[j].id # id))]
  IN [type |-> applySubstitution(sub, scheme.type),
      st |-> IF st.err # "" THEN st ELSE [st EXCEPT !.tv = @ + n]]

\* first loop of solveConstraints: the equality constraints, in order
RECURSIVE solveEqualities(_, _, _)
solveEqualities(cs, i, substitution) ==
  IF i > Len(cs) THEN UOk(substitution)
  ELSE With(unify(applySubstitution(substitution, cs[i].left),
                  applySubstitution(substitution, cs[i].right)),
         LAMBDA mgu :
           IF mgu.err # "" THEN mgu
           ELSE solveEqualities(cs, i + 1,
                                composeSubstitutions(mgu.sub, substitution)))

\* second loop: fieldConstraintsByObj, a Map from the id of the substituted
\* object type to its constraints; only constraints whose object type is
\* still a type variable are entered
RECURSIVE groupFieldConstraints(_, _, _, _)
groupFieldConstraints(fcs, i, substitution, groups) ==
  IF i > Len(fcs) THEN groups
  ELSE With(applySubstitution(substitution, fcs[i].objectType), LAMBDA objType :
       LET entry == [objectType |-> objType,
                     fieldName |-> fcs[i].fieldName,
                     fieldType |-> applySubstitution(substitution, fcs[i].fieldType)]
           known == \E g \in 1..Len(groups) : groups[g].id = objType.id
       IN IF objType.kind # "TypeVar"
          THEN groupFieldConstraints(fcs, i + 1, substitution, groups)
          ELSE IF known
          THEN groupFieldConstraints(fcs, i + 1, substitution,
                 [g \in 1..Len(groups) |->
                    IF groups[g].id = objType.id
                    THEN [groups[g] EXCEPT !.constraints = Append(@, entry)]
                    ELSE groups[g]])
          ELSE groupFieldConstraints(fcs, i + 1, substitution,
                 Append(groups, [id |-> objType.id, constraints |-> <<entry>>])))

RECURSIVE requiredFieldsOf(_, _, _)
requiredFieldsOf(constraints, i, fields) ==
  IF i > Len(constraints) THEN fields
  ELSE requiredFieldsOf(constraints, i + 1,
         FieldSet(fields, constraints[i].fieldName, constraints[i].fieldType))

\* third loop: one open record per group, unified with the object variable
RECURSIVE solveGroups(_, _, _, _)
solveGroups(groups, g, substitution, st) ==
  IF g > Len(groups) THEN [err |-> "", sub |-> substitution, st |-> st]
  ELSE LET objType == groups[g].constraints[1].objectType
           requiredFields == requiredFieldsOf(groups[g].constraints, 1, <<>>)
           rowVar == freshRowVar(st)
           expectedObjectType == objectType(requiredFields, rowVar.type)
       IN With(unify(objType, expectedObjectType), LAMBDA mgu :
            IF mgu.err # ""
            THEN [err |-> mgu.err, sub |-> substitution, st |-> rowVar.st]
            ELSE solveGroups(groups, g + 1,
                             composeSubstitutions(mgu.sub, substitution),
                             rowVar.st))

\* solveConstraints: [sub, st].  The two lists are cleared on the normal
\* return only: a throw leaves them as they are.
solveConstraints(st) ==
  IF st.err # "" THEN [sub |-> EmptySub, st |-> st]
  ELSE
  With(solveEqualities(st.cs, 1, EmptySub), LAMBDA eq :
    IF eq.err # "" THEN [sub |-> EmptySub, st |-> throw(eq.err, st)]
    ELSE
    With(groupFieldConstraints(st.fcs, 1, eq.sub, <<>>), LAMBDA groups :
    With(solveGroups(groups, 1, eq.sub, st), LAMBDA fa :
      IF fa.err # "" THEN [sub |-> EmptySub, st |-> throw(fa.err, fa.st)]
      ELSE [sub |-> fa.sub, st |-> [fa.st EXCEPT !.cs = <<>>, !.fcs = <<>>]])))

----------------------------------------------------------------------------
(* ast.ts (kept at the end of src/src/infer.ts): the nodes the inferencer  *)
(* and the evaluator walk.  An absent optional child is the node None.     *)

None == [kind |-> "None"]
Num(v) == [kind |-> "NumberLiteral", value |-> v]
Str(v) == [kind |-> "StringLiteral", value |-> v]
Bool(v) == [kind |-> "BooleanLiteral", value |-> v]
Undefined == [kind |-> "UndefinedLiteral"]
Id(name) == [kind |-> "Identifier", name |-> name]
Arr(elements) == [kind |-> "ArrayExpression", elements |-> elements]
Prop(key, value) == [key |-> key, value |-> value]
Obj(properties) == [kind |-> "ObjectExpression", properties |-> properties]
Param(name) == [name |-> name, typeAnnotation |-> None]
Fn(parameters, body) ==
  [kind |-> "FunctionExpression", parameters |-> parameters, body |-> body,
   returnTypeAnnotation |-> None]
Call(callee, arguments) ==
  [kind |-> "CallExpression", callee |-> callee, arguments |-> arguments]
Bin(operator, left, right) ==
  [kind |-> "BinaryExpression", operator |-> operator, left |-> left, right |-> right]
If(condition, thenBranch, elseBranch) ==
  [kind |-> "IfExpression", condition |-> condition, thenBranch |-> thenBranch,
   elseBranch |-> elseBranch]
Member(object, property) ==
  [kind |-> "MemberExpression", object |-> object, property |-> property]
Index(array, index) == [kind |-> "IndexExpression", array |-> array, index |-> index]
Entry(key, value) == [key |-> key, value |-> value]
Dict(entries) == [kind |-> "DictionaryExpression", entries |-> entries]
Binding(name, initializer) ==
  [name |-> name, initializer |-> initializer, typeAnnotation |-> None]
\* a VariableBinding with its TypeAnnotation; the annotation is held as its
\* type expression
Annotated(name, type, initializer) ==
  [name |-> name, initializer |-> initializer, typeAnnotation |-> type]
PrimitiveTypeExpr(primitive) ==
  [kind |-> "PrimitiveTypeExpression", primitive |-> primitive]
ArrayTypeExpr(elementType) ==
  [kind |-> "ArrayTypeExpression", elementType |-> elementType]
LiteralPattern(value) == [kind |-> "LiteralPattern", value |-> value]
IdentifierPattern(name) == [kind |-> "IdentifierPattern", name |-> name]
WildcardPattern == [kind |-> "WildcardPattern"]
MatchCase(pattern, guard, body) == [pattern |-> pattern, guard |-> guard, body |-> body]
Match(expression, cases) ==
  [kind |-> "MatchExpression", expression |-> expression, cases |-> cases]
Let(bindings) == [kind |-> "VariableDeclaration", bindings |-> bindings]
LetStmt(bindings) == [kind |-> "LetStatement", bindings |-> bindings]
ExprStmt(expression) == [kind |-> "ExpressionStatement", expression |-> expression]
Block(statements, expression) ==
  [kind |-> "BlockExpression", statements |-> statements, expression |-> expression]

----------------------------------------------------------------------------
(* infer.ts: constraint generation.  An inference result is [type, env,    *)
(* st]: env is the Map the caller passed, as the call leaves it (a let     *)
(* writes into it).                                                        *)

Res(type, env, st) == [type |-> type, env |-> env, st |-> st]
Mono(type) == [typeVars |-> <<>>, type |-> type]
EnvSet(env, name, scheme) ==
  [n \in DOMAIN env \cup {name} |-> IF n = name THEN scheme ELSE env[n]]

typeExpressionToTypeAny(typeExpr, st) == freshTypeVar(st)

RECURSIVE typeExpressionToType(_, _)
RECURSIVE typeExpressionsToTypes(_, _, _, _)
typeExpressionsToTypes(typeExprs, i, types, st) ==
  IF i > Len(typeExprs) \/ st.err # "" THEN [types |-> types, st |-> st]
  ELSE With(typeExpressionToType(typeExprs[i], st), LAMBDA t :
         typeExpressionsToTypes(typeExprs, i + 1, Append(types, t.type), t.st))

typeExpressionToType(typeExpr, st) ==
  IF st.err # "" THEN [type |-> unitType, st |-> st]
  ELSE
  CASE typeExpr.kind = "PrimitiveTypeExpression" ->
         [type |-> CASE typeExpr.primitive = "number" -> numberType
                     [] typeExpr.primitive = "string" -> stringType
                     [] typeExpr.primitive = "boolean" -> booleanType
                     [] typeExpr.primitive = "null" -> nullType
                     [] typeExpr.primitive = "undefined" -> undefinedType
                     [] OTHER -> unitType,
          st |-> IF typeExpr.primitive \in {"number", "string", "boolean", "null",
                                            "undefined", "unit"}
                 THEN st
                 ELSE throw(ErrUnknownPrimitive, st)]
    [] typeExpr.kind = "ArrayTypeExpression" ->
         With(typeExpressionToType(typeExpr.elementType, st), LAMBDA e :
           [type |-> arrayType(e.type), st |-> e.st])
    [] typeExpr.kind = "DictionaryTypeExpression" ->
         With(typeExpressionToType(typeExpr.keyType, st), LAMBDA k :
         With(typeExpressionToType(typeExpr.valueType, k.st), LAMBDA v :
           [type |-> dictType(k.type, v.type), st |-> v.st]))
    [] typeExpr.kind = "FunctionTypeExpression" ->
         With(typeExpressionsToTypes(typeExpr.paramTypes, 1, <<>>, st), LAMBDA ps :
         With(typeExpressionToType(typeExpr.returnType, ps.st), LAMBDA r :
           [type |-> functionType(ps.types, r.type), st |-> r.st]))
    [] typeExpr.kind = "TypeVariable" -> freshTypeVar(st)
    [] OTHER -> [type |-> unitType, st |-> throw(ErrUnsupportedTypeExpr, st)]

RECURSIVE enforceSubtype(_, _, _)
RECURSIVE enforceParams(_, _, _, _)
RECURSIVE enforceFields(_, _, _, _)

enforceParamsUnchecked(a, b, i, st) == st

enforceFieldsExact(a, b, i, st) == addConstraint(a, b, st)

\* b.param <= a.param for every parameter, in order
enforceParams(a, b, i, st) ==
  IF i > Len(a.paramTypes) THEN st
  ELSE enforceParams(a, b, i + 1,
                     enforceSubtype(b.paramTypes[i], a.paramTypes[i], st))

\* every field of b, in b's order, must be in a with a subtype
enforceFields(a, b, i, st) ==
  IF i > Len(b.fields) \/ st.err # "" THEN st
  ELSE IF ~FieldHas(a.fields, b.fields[i].key) THEN throw(ErrMissingFields, st)
  ELSE enforceFields(a, b, i + 1,
         enforceSubtype(FieldGet(a.fields, b.fields[i].key), b.fields[i].type, st))

enforceSubtype(a, b, st) ==
  IF st.err # "" THEN st
  ELSE IF typesEqual(a, b) THEN st
  ELSE IF a.kind = "FunctionType" /\ b.kind = "FunctionType"
    THEN IF Len(a.paramTypes) # Len(b.paramTypes) THEN throw(ErrArity, st)
         ELSE enforceSubtype(a.returnType, b.returnType, enforceParams(a, b, 1, st))
  ELSE IF a.kind = "ObjectType" /\ b.kind = "ObjectType"
    THEN enforceFields(a, b, 1, st)
  ELSE IF a.kind = "ArrayType" /\ b.kind = "ArrayType"
    THEN addConstraint(a.elementType, b.elementType, st)
  ELSE IF a.kind = "DictType" /\ b.kind = "DictType"
    THEN addConstraint(a.valueType, b.valueType,
                       addConstraint(a.keyType, b.keyType, st))
  ELSE addConstraint(a, b, st)

RECURSIVE joinObjectTypes(_, _, _)
RECURSIVE joinFields(_, _, _, _, _)
joinFields(a, b, i, fields, st) ==
  IF i > Len(a.fields) THEN [fields |-> fields, st |-> st]
  ELSE IF ~FieldHas(b.fields, a.fields[i].key)
    THEN joinFields(a, b, i + 1, fields, st)
  ELSE LET key == a.fields[i].key
           aField == a.fields[i].type
           bField == FieldGet(b.fields, key)
       IN IF aField.kind = "ObjectType" /\ bField.kind = "ObjectType"
          THEN With(joinObjectTypes(aField, bField, st), LAMBDA nested :
                 joinFields(a, b, i + 1, FieldSet(fields, key, nested.type),
                            nested.st))
          ELSE joinFields(a, b, i + 1, FieldSet(fields, key, aField),
                          addConstraint(aField, bField, st))

joinObjectTypesFirst(a, b, st) == [type |-> a, st |-> st]

joinObjectTypes(a, b, st) ==
  With(joinFields(a, b, 1, <<>>, st), LAMBDA j :
    [type |-> objectType(j.fields, NoRowVar), st |-> j.st])

RECURSIVE inferExpression(_, _, _)
RECURSIVE inferExpressions(_, _, _, _, _)
RECURSIVE inferRestElements(_, _, _, _, _)
RECURSIVE inferRestEntries(_, _, _, _, _, _)
RECURSIVE inferProperties(_, _, _, _, _)
RECURSIVE declareParameters(_, _, _, _, _)
RECURSIVE inferStatements(_, _, _, _)
RECURSIVE declareBindings(_, _, _, _, _, _)
RECURSIVE inferBindings(_, _, _, _, _, _, _)
RECURSIVE inferRestCases(_, _, _, _, _, _)
RECURSIVE inferMatchCase(_, _, _, _)

\* expr.arguments.map(inferExpression)
inferExpressions(exprs, i, types, env, st) ==
  IF i > Len(exprs) \/ st.err # "" THEN [types |-> types, env |-> env, st |-> st]
  ELSE With(inferExpression(exprs[i], env, st), LAMBDA r :
         inferExpressions(exprs, i + 1, Append(types, r.type), r.env, r.st))

inferIdentifier(expr, env, st) ==
  IF expr.name \notin DOMAIN env
  THEN Res(unitType, env, throw(ErrUndefinedVariable, st))
  ELSE With(instantiate(env[expr.name], st), LAMBDA t : Res(t.type, env, t.st))

inferRestElements(elements, i, firstType, env, st) ==
  IF i > Len(elements) \/ st.err # "" THEN Res(arrayType(firstType), env, st)
  ELSE With(inferExpression(elements[i], env, st), LAMBDA e :
         inferRestElements(elements, i + 1, firstType, e.env,
                           addConstraint(firstType, e.type, e.st)))

inferArrayExpression(expr, env, st) ==
  IF Len(expr.elements) = 0
  THEN With(freshTypeVar(st), LAMBDA t : Res(arrayType(t.type), env, t.st))
  ELSE With(inferExpression(expr.elements[1], env, st), LAMBDA first :
         inferRestElements(expr.elements, 2, first.type, first.env, first.st))

inferRestEntries(entries, i, firstKeyType, firstValueType, env, st) ==
  IF i > Len(entries) \/ st.err # ""
  THEN Res(dictType(firstKeyType, firstValueType), env, st)
  ELSE With(inferExpression(entries[i].key, env, st), LAMBDA k :
       With(inferExpression(entries[i].value, k.env, k.st), LAMBDA v :
         inferRestEntries(entries, i + 1, firstKeyType, firstValueType, v.env,
           addConstraint(firstValueType, v.type,
                         addConstraint(firstKeyType, k.type, v.st)))))

inferDictionaryExpression(expr, env, st) ==
  IF Len(expr.entries) = 0
  THEN With(freshTypeVar(st), LAMBDA k :
       With(freshTypeVar(k.st), LAMBDA v :
         Res(dictType(k.type, v.type), env, v.st)))
  ELSE With(inferExpression(expr.entries[1].key, env, st), LAMBDA k :
       With(inferExpression(expr.entries[1].value, k.env, k.st), LAMBDA v :
         inferRestEntries(expr.entries, 2, k.type, v.type, v.env, v.st)))

inferProperties(properties, i, fields, env, st) ==
  IF i > Len(properties) \/ st.err # ""
  THEN Res(objectType(fields, NoRowVar), env, st)
  ELSE With(inferExpression(properties[i].value, env, st), LAMBDA v :
         inferProperties(properties, i + 1,
                         FieldSet(fields, properties[i].key, v.type), v.env, v.st))

inferObjectExpression(expr, env, st) ==
  inferProperties(expr.properties, 1, <<>>, env, st)

declareParameters(parameters, i, paramTypes, newEnv, st) ==
  IF i > Len(parameters) \/ st.err # ""
  THEN [types |-> paramTypes, env |-> newEnv, st |-> st]
  ELSE With(IF parameters[i].typeAnnotation.kind # "None"
            THEN typeExpressionToType(parameters[i].typeAnnotation, st)
            ELSE freshTypeVar(st),
         LAMBDA p :
           declareParameters(parameters, i + 1, Append(paramTypes, p.type),
                             EnvSet(newEnv, parameters[i].name, Mono(p.type)),
                             p.st))

inferFunctionExpression(expr, env, st) ==
  With(declareParameters(expr.parameters, 1, <<>>, env, st), LAMBDA ps :
  With(inferExpression(expr.body, ps.env, ps.st), LAMBDA body :
    IF expr.returnTypeAnnotation.kind # "None"
    THEN With(typeExpressionToType(expr.returnTypeAnnotation, body.st),
           LAMBDA declared :
             Res(functionType(ps.types, body.type), env,
                 addConstraint(body.type, declared.type, declared.st)))
    ELSE Res(functionType(ps.types, body.type), env, body.st)))

inferCallExpression(expr, env, st) ==
  With(inferExpression(expr.callee, env, st), LAMBDA func :
  With(inferExpressions(expr.arguments, 1, <<>>, func.env, func.st), LAMBDA args :
  With(freshTypeVar(args.st), LAMBDA returnType :
  With(functionType(args.types, returnType.type), LAMBDA expectedFuncType :
  With(enforceSubtype(func.type, expectedFuncType, returnType.st), LAMBDA checked :
    Res(returnType.type, args.env,
        IF returnType.st.err # "" THEN checked
        ELSE [checked EXCEPT !.calls = Append(@, [funcType |-> func.type,
                                                  expected |-> expectedFuncType,
                                                  err |-> checked.err])]))))))

inferBinaryExpression(expr, env, st) ==
  With(inferExpression(expr.left, env, st), LAMBDA left :
  With(inferExpression(expr.right, left.env, left.st), LAMBDA right :
    CASE expr.operator \in {"+", "-", "*", "/", "%"} ->
           Res(numberType, right.env,
               addConstraint(right.type, numberType,
                             addConstraint(left.type, numberType, right.st)))
      [] expr.operator \in {"==", "!="} ->
           Res(booleanType, right.env,
               addConstraint(left.type, right.type, right.st))
      [] expr.operator \in {"<", "<=", ">", ">="} ->
           Res(booleanType, right.env,
               addConstraint(right.type, numberType,
                             addConstraint(left.type, numberType, right.st)))
      [] expr.operator \in {"&&", "||"} ->
           Res(booleanType, right.env,
               addConstraint(right.type, booleanType,
                             addConstraint(left.type, booleanType, right.st)))
      [] OTHER -> Res(unitType, right.env, throw(ErrUnknownOperator, right.st))))

inferUnaryExpression(expr, env, st) ==
  With(inferExpression(expr.operand, env, st), LAMBDA operand :
    CASE expr.operator = "!" ->
           Res(booleanType, operand.env,
               addConstraint(operand.type, booleanType, operand.st))
      [] expr.operator = "-" ->
           Res(numberType, operand.env,
               addConstraint(operand.type, numberType, operand.st))
      [] OTHER -> Res(unitType, operand.env,
                      throw(ErrUnknownOperator, operand.st)))

inferIfExpression(expr, env, st) ==
  With(inferExpression(expr.condition, env, st), LAMBDA cond :
  With(inferExpression(expr.thenBranch, cond.env,
                       addConstraint(cond.type, booleanType, cond.st)),
    LAMBDA then :
    IF expr.elseBranch.kind = "None"
    THEN Res(unitType, then.env, addConstraint(then.type, unitType, then.st))
    ELSE
    With(inferExpression(expr.elseBranch, then.env, then.st), LAMBDA else :
      IF then.type.kind = "ObjectType" /\ else.type.kind = "ObjectType"
      THEN With(joinObjectTypes(then.type, else.type, else.st), LAMBDA joined :
             IF Len(joined.type.fields) > 0
             THEN Res(joined.type, else.env, joined.st)
             ELSE Res(then.type, else.env,
                      addConstraint(then.type, else.type, joined.st)))
      ELSE Res(then.type, else.env,
               addConstraint(then.type, else.type, else.st)))))

inferStatements(statements, i, newEnv, st) ==
  IF i > Len(statements) \/ st.err # "" THEN [env |-> newEnv, st |-> st]
  ELSE IF statements[i].kind \in {"LetStatement", "ExpressionStatement"}
    THEN With(IF statements[i].kind = "LetStatement"
              THEN declareBindings(statements[i].bindings, 1, newEnv, st,
                                   [n \in {} |-> None], [n \in {} |-> None])
              ELSE inferExpression(statements[i].expression, newEnv, st),
           LAMBDA s : inferStatements(statements, i + 1, s.env, s.st))
  ELSE inferStatements(statements, i + 1, newEnv, st)

inferBlockExpression(expr, env, st) ==
  With(inferStatements(expr.statements, 1, env, st), LAMBDA stmts :
  With(inferExpression(expr.expression, stmts.env, stmts.st), LAMBDA final :
    Res(final.type, env, final.st)))

\* inferBindingGroup, first loop: pre-declare every binding with its
\* annotated type or a fresh variable; then the second loop
declareBindings(bindings, i, env, st, assumedTypes, annotatedTypes) ==
  IF st.err # "" THEN [types |-> <<>>, env |-> env, st |-> st]
  ELSE IF Len(bindings) = 0
    THEN [types |-> <<>>, env |-> env, st |-> throw(ErrEmptyGroup, st)]
  ELSE IF i > Len(bindings)
    THEN inferBindings(bindings, 1, env, st, assumedTypes, annotatedTypes, <<>>)
  ELSE LET annotated == bindings[i].typeAnnotation.kind # "None"
           name == bindings[i].name
       IN With(IF annotated
               THEN typeExpressionToType(bindings[i].typeAnnotation, st)
               ELSE freshTypeVar(st),
            LAMBDA a :
              declareBindings(bindings, i + 1, EnvSet(env, name, Mono(a.type)),
                a.st, EnvSet(assumedTypes, name, a.type),
                EnvSet(annotatedTypes, name, IF annotated THEN a.type ELSE None)))

\* inferBindingGroup, second loop: infer each initializer, constrain it to
\* the assumed type, generalize and rebind
inferBindings(bindings, i, env, st, assumedTypes, annotatedTypes, resultTypes) ==
  IF i > Len(bindings) \/ st.err # ""
  THEN [types |-> resultTypes, env |-> env, st |-> st]
  ELSE
  LET name == bindings[i].name
      assumedType == assumedTypes[name]
      annotation == annotatedTypes[name]
  IN
  With(inferExpression(bindings[i].initializer, env, [st EXCEPT !.open = @ + 1]),
    LAMBDA actual :
  With(addConstraint(actual.type, assumedType,
                     [actual.st EXCEPT !.open = st.open]),
    LAMBDA st1 :
  With(IF annotation.kind # "None"
       THEN enforceSubtype(actual.type, annotation, st1)
       ELSE st1,
    LAMBDA st2 :
    IF st2.err # "" THEN [types |-> resultTypes, env |-> actual.env, st |-> st2]
    ELSE
    With(IF annotation.kind # "None" THEN annotation ELSE actual.type,
      LAMBDA finalType :
    With(generalize(actual.env, finalType), LAMBDA scheme :
      inferBindings(bindings, i + 1, EnvSet(actual.env, name, scheme),
        [st2 EXCEPT !.gens = Append(@, [name |-> name,
                                        scheme |-> scheme,
                                        env |-> actual.env,
                                        assumed |-> assumedType,
                                        nested |-> st.open > 0])],
        assumedTypes, annotatedTypes, Append(resultTypes, finalType)))))))

inferVariableDeclaration(expr, env, st) ==
  With(declareBindings(expr.bindings, 1, env, st,
                       [n \in {} |-> None], [n \in {} |-> None]),
    LAMBDA g :
      Res(IF g.st.err # "" THEN unitType ELSE g.types[Len(g.types)], g.env, g.st))

inferMemberExpression(expr, env, st) ==
  With(inferExpression(expr.object, env, st), LAMBDA obj :
    IF obj.st.err # "" THEN Res(unitType, obj.env, obj.st)
    ELSE
    With(freshTypeVar(obj.st), LAMBDA propertyType :
      IF obj.type.kind = "ObjectType"
      THEN IF FieldHas(obj.type.fields, expr.property)
           THEN Res(FieldGet(obj.type.fields, expr.property), obj.env, obj.st)
           ELSE IF obj.type.rowVar.kind = "RowVar"
           THEN Res(propertyType.type, obj.env, propertyType.st)
           ELSE Res(unitType, obj.env, throw(ErrNoProperty, obj.st))
      ELSE IF obj.type.kind = "TypeVar"
        THEN Res(propertyType.type, obj.env,
                 addFieldAccessConstraint(obj.type, expr.property,
                                          propertyType.type, propertyType.st))
      ELSE With(freshRowVar(propertyType.st), LAMBDA rowVar :
             Res(propertyType.type, obj.env,
                 addConstraint(obj.type,
                   objectType(<<[key |-> expr.property,
                                 type |-> propertyType.type]>>, rowVar.type),
                   rowVar.st)))))

inferIndexExpression(expr, env, st) ==
  With(inferExpression(expr.array, env, st), LAMBDA container :
  With(inferExpression(expr.index, container.env, container.st), LAMBDA index :
  With(freshTypeVar(index.st), LAMBDA resultType :
    IF expr.array.kind = "DictionaryExpression" \/ expr.index.kind = "StringLiteral"
    THEN Res(resultType.type, index.env,
             addConstraint(container.type, dictType(index.type, resultType.type),
                           resultType.st))
    ELSE Res(resultType.type, index.env,
             addConstraint(index.type, numberType,
               addConstraint(container.type, arrayType(resultType.type),
                             resultType.st))))))

\* inferPattern on the case's copy of the environment, then guard and body
inferMatchCase(matchCase, exprType, env, st) ==
  With(CASE matchCase.pattern.kind = "LiteralPattern" ->
              With(inferExpression(matchCase.pattern.value, env, st),
                LAMBDA literal :
                  [env |-> literal.env,
                   st |-> addConstraint(exprType, literal.type, literal.st)])
         [] matchCase.pattern.kind = "IdentifierPattern" ->
              [env |-> EnvSet(env, matchCase.pattern.name,
                              generalize(env, exprType)),
               st |-> st]
         [] OTHER -> [env |-> env, st |-> st],
    LAMBDA bound :
  With(IF matchCase.guard.kind # "None"
       THEN With(inferExpression(matchCase.guard, bound.env, bound.st),
              LAMBDA guard :
                [env |-> guard.env,
                 st |-> addConstraint(guard.type, booleanType, guard.st)])
       ELSE bound,
    LAMBDA guarded :
  With(inferExpression(matchCase.body, guarded.env, guarded.st), LAMBDA body :
    Res(body.type, env, body.st))))

inferRestCases(cases, i, exprType, firstCaseType, env, st) ==
  IF i > Len(cases) \/ st.err # "" THEN Res(firstCaseType, env, st)
  ELSE With(inferMatchCase(cases[i], exprType, env, st), LAMBDA c :
         inferRestCases(cases, i + 1, exprType, firstCaseType, env,
                        addConstraint(firstCaseType, c.type, c.st)))

inferMatchExpression(expr, env, st) ==
  With(inferExpression(expr.expression, env, st), LAMBDA disc :
    IF Len(expr.cases) = 0
    THEN Res(unitType, disc.env, throw(ErrNoCases, disc.st))
    ELSE With(inferMatchCase(expr.cases[1], disc.type, disc.env, disc.st),
           LAMBDA first :
             inferRestCases(expr.cases, 2, disc.type, first.type, disc.env,
                            first.st)))

inferExpression(expr, env, st) ==
  IF st.err # "" THEN Res(unitType, env, st)
  ELSE
  CASE expr.kind = "NumberLiteral" -> Res(numberType, env, st)
    [] expr.kind = "StringLiteral" -> Res(stringType, env, st)
    [] expr.kind = "BooleanLiteral" -> Res(booleanType, env, st)
    [] expr.kind = "NullLiteral" -> Res(nullType, env, st)
    [] expr.kind = "UndefinedLiteral" -> Res(undefinedType, env, st)
    [] expr.kind = "Identifier" -> inferIdentifier(expr, env, st)
    [] expr.kind = "ArrayExpression" -> inferArrayExpression(expr, env, st)
    [] expr.kind = "DictionaryExpression" -> inferDictionaryExpression(expr, env, st)
    [] expr.kind = "ObjectExpression" -> inferObjectExpression(expr, env, st)
    [] expr.kind = "FunctionExpression" -> inferFunctionExpression(expr, env, st)
    [] expr.kind = "CallExpression" -> inferCallExpression(expr, env, st)
    [] expr.kind = "BinaryExpression" -> inferBinaryExpression(expr, env, st)
    [] expr.kind = "UnaryExpression" -> inferUnaryExpression(expr, env, st)
    [] expr.kind = "IfExpression" -> inferIfExpression(expr, env, st)
    [] expr.kind = "BlockExpression" -> inferBlockExpression(expr, env, st)
    [] expr.kind = "VariableDeclaration" -> inferVariableDeclaration(expr, env, st)
    [] expr.kind = "MemberExpression" -> inferMemberExpression(expr, env, st)
    [] expr.kind = "IndexExpression" -> inferIndexExpression(expr, env, st)
    [] expr.kind = "MatchExpression" -> inferMatchExpression(expr, env, st)
    [] OTHER -> Res(unitType, env, throw(ErrUnknownKind, st))

----------------------------------------------------------------------------
(* cli.ts: the evaluator.  A runtime value is a record tagged by `kind`;   *)
(* numbers are integers.  Environment objects live in h.frames, a closure  *)
(* holds the index of its frame, so a define after a closure was made is   *)
(* seen by the closure, as with the object references of the code.         *)
(* h.err # "" is the RuntimeError thrown.                                  *)

VNum(n) == [kind |-> "number", value |-> n]
VStr(v) == [kind |-> "string", value |-> v]
VBool(b) == [kind |-> "boolean", value |-> b]
VNull == [kind |-> "null"]
VUndefined == [kind |-> "undefined"]
VArray(elements) == [kind |-> "array", elements |-> elements]
VObject(fields) == [kind |-> "object", fields |-> fields]
VFunction(parameters, body, closure) ==
  [kind |-> "function", parameters |-> parameters, body |-> body, closure |-> closure]
VBuiltin(name) == [kind |-> "builtin", name |-> name]

RtUndefinedVariable == "Undefined variable"
RtNumericOperands == "Operator requires numeric operands"
RtInvalidPlus == "Invalid operands for +"
RtInvalidNegate == "Invalid operand for unary -"
RtDivisionByZero == "Division by zero"
RtNotCallable == "Cannot call non-function value"
RtArity == "Function expects a different number of arguments"
RtBuiltin == "Builtin function error"
RtNullProperty == "Cannot access property of null or undefined"
RtNonObjectProperty == "Cannot access property of non-object"
RtNoProperty == "Property does not exist"
RtIndexNonArray == "Cannot index non-array value"
RtIndexNotNumber == "Array index must be a number"
RtIndexBounds == "Array index out of bounds"
RtNoMatch == "No matching pattern in match expression"
RtUnknownKind == "Unknown expression kind"
RtUnknownStatement == "Unknown statement kind"
RtUnknownPattern == "Unknown pattern kind"
RtUnknownOperator == "Unknown operator"
\* not a RuntimeError: the host's own TypeError, when the evaluator reads a
\* field the node does not have
RtHost == "Cannot read properties of undefined"

\* the runtime errors that a type error in the program shows as
TypeTaggedErrors ==
  {RtNumericOperands, RtInvalidPlus, RtInvalidNegate, RtNotCallable, RtArity,
   RtNoProperty, RtNonObjectProperty}

raise(msg, h) == IF h.err # "" THEN h ELSE [h EXCEPT !.err = msg]
Val(value, h) == [value |-> value, h |-> h]

\* Environment.extend / define / get
extend(envId, h) ==
  [id |-> Len(h.frames) + 1,
   h |-> [h EXCEPT !.frames = Append(@, [bindings |-> [n \in {} |-> VNull],
                                         parent |-> envId])]]
define(envId, name, value, h) ==
  IF h.err # "" THEN h
  ELSE [h EXCEPT !.frames[envId].bindings =
          [n \in DOMAIN @ \cup {name} |-> IF n = name THEN value ELSE @[n]]]

RECURSIVE EnvironmentGet(_, _, _)
\* [found, value]: not found is the Error that Environment.get throws
EnvironmentGet(frames, envId, name) ==
  LET frame == frames[envId]
  IN IF name \in DOMAIN frame.bindings /\ frame.bindings[name].kind # "undefined"
     THEN [found |-> TRUE, value |-> frame.bindings[name]]
     ELSE IF frame.parent # 0 THEN EnvironmentGet(frames, frame.parent, name)
     ELSE [found |-> FALSE, value |-> VUndefined]

isTruthy(value) ==
  CASE value.kind \in {"null", "undefined"} -> FALSE
    [] value.kind = "boolean" -> value.value
    [] value.kind = "number" -> value.value # 0
    [] value.kind = "string" -> value.value # ""
    [] OTHER -> TRUE

\* the JavaScript typeof of a runtime value
TypeOf(value) ==
  IF value.kind \in {"number", "string", "boolean", "undefined"}
  THEN value.kind
  ELSE "object"

ObjHas(fields, key) == \E i \in 1..Len(fields) : fields[i].key = key
ObjGet(fields, key) ==
  fields[CHOOSE i \in 1..Len(fields) : fields[i].key = key].value
ObjSet(fields, key, value) ==
  IF ObjHas(fields, key)
  THEN [i \in 1..Len(fields) |->
          IF fields[i].key = key THEN [key |-> key, value |-> value] ELSE fields[i]]
  ELSE Append(fields, [key |-> key, value |-> value])

\* isEqual on numbers, strings, booleans, null, undefined, arrays and
\* records; two closures are equal when they are the same literal closed
\* over the same frame
RECURSIVE isEqual(_, _)
isEqual(left, right) ==
  IF TypeOf(left) # TypeOf(right) THEN FALSE
  ELSE IF left.kind = "array" /\ right.kind = "array"
    THEN /\ Len(left.elements) = Len(right.elements)
         /\ \A i \in 1..Len(left.elements) :
               isEqual(left.elements[i], right.elements[i])
  ELSE IF left.kind = "object" /\ right.kind = "object"
    THEN /\ Len(left.fields) = Len(right.fields)
         /\ \A i \in 1..Len(left.fields) :
               isEqual(left.fields[i].value,
                       IF ObjHas(right.fields, left.fields[i].key)
                       THEN ObjGet(right.fields, left.fields[i].key)
                       ELSE VUndefined)
  ELSE left = right

\* String(value) for the operands of +
StringOf(value) ==
  CASE value.kind = "string" -> value.value
    [] value.kind = "number" -> ToString(value.value)
    [] value.kind = "boolean" -> IF value.value THEN "true" ELSE "false"
    [] value.kind = "null" -> "null"
    [] value.kind = "undefined" -> "undefined"
    [] OTHER -> "[object Object]"

\* the implementations of the built-ins of createGlobalEnvironment that the
\* modelled programs can name
callBuiltin(name, args, h) ==
  CASE name = "length" ->
         IF Len(args) = 0 \/ args[1].kind # "array"
         THEN Val(VUndefined, raise(RtBuiltin, h))
         ELSE Val(VNum(Len(args[1].elements)), h)
    [] name = "head" ->
         IF Len(args) = 0 \/ args[1].kind # "array" \/ Len(args[1].elements) = 0
         THEN Val(VUndefined, raise(RtBuiltin, h))
         ELSE Val(args[1].elements[1], h)
    [] OTHER -> Val(VUndefined, raise(RtBuiltin, h))

binaryResult(operator, left, right, h) ==
  LET numbers == left.kind = "number" /\ right.kind = "number"
      l == left.value
      r == right.value
  IN IF operator \in {"-", "*", "/", "%", ">", "<", ">=", "<="} /\ ~numbers
     THEN Val(VUndefined, raise(RtNumericOperands, h))
     ELSE
     CASE operator = "+" ->
            IF numbers THEN Val(VNum(l + r), h)
            ELSE IF left.kind = "string" \/ right.kind = "string"
              THEN Val(VStr(StringOf(left) \o StringOf(right)), h)
            ELSE Val(VUndefined, raise(RtInvalidPlus, h))
       [] operator = "-" -> Val(VNum(l - r), h)
       [] operator = "*" -> Val(VNum(l * r), h)
       [] operator = "/" ->
            IF r = 0 THEN Val(VUndefined, raise(RtDivisionByZero, h))
            ELSE Val(VNum(l \div r), h)
       [] operator = "%" -> Val(VNum(IF r = 0 THEN 0 ELSE l % r), h)
       [] operator = ">" -> Val(VBool(l > r), h)
       [] operator = "<" -> Val(VBool(l < r), h)
       [] operator = ">=" -> Val(VBool(l >= r), h)
       [] operator = "<=" -> Val(VBool(l <= r), h)
       [] operator = "==" -> Val(VBool(isEqual(left, right)), h)
       [] operator = "!=" -> Val(VBool(~isEqual(left, right)), h)
       [] operator = "&&" -> Val(VBool(isTruthy(left) /\ isTruthy(right)), h)
       [] operator = "||" -> Val(VBool(isTruthy(left) \/ isTruthy(right)), h)
       [] OTHER -> Val(VUndefined, raise(RtUnknownOperator, h))

RECURSIVE evaluateExpression(_, _, _)
RECURSIVE evaluateExpressions(_, _, _, _, _)
RECURSIVE evaluateProperties(_, _, _, _, _)
RECURSIVE evaluateStatements(_, _, _, _)
RECURSIVE evaluateCases(_, _, _, _, _)
RECURSIVE bindParameters(_, _, _, _, _)

evaluateExpressions(exprs, i, values, env, h) ==
  IF i > Len(exprs) \/ h.err # "" THEN [values |-> values, h |-> h]
  ELSE With(evaluateExpression(exprs[i], env, h), LAMBDA v :
         evaluateExpressions(exprs, i + 1, Append(values, v.value), env, v.h))

evaluateIdentifier(expr, env, h) ==
  With(EnvironmentGet(h.frames, env, expr.name), LAMBDA got :
    IF got.found THEN Val(got.value, h)
    ELSE Val(VUndefined, raise(RtUndefinedVariable, h)))

evaluateBinaryExpression(expr, env, h) ==
  With(evaluateExpression(expr.left, env, h), LAMBDA left :
  With(evaluateExpression(expr.right, env, left.h), LAMBDA right :
    IF right.h.err # "" THEN Val(VUndefined, right.h)
    ELSE binaryResult(expr.operator, left.value, right.value, right.h)))

evaluateUnaryExpression(expr, env, h) ==
  With(evaluateExpression(expr.operand, env, h), LAMBDA operand :
    IF operand.h.err # "" THEN Val(VUndefined, operand.h)
    ELSE CASE expr.operator = "-" ->
                IF operand.value.kind # "number"
                THEN Val(VUndefined, raise(RtInvalidNegate, operand.h))
                ELSE Val(VNum(0 - operand.value.value), operand.h)
           [] expr.operator = "!" ->
                Val(VBool(~isTruthy(operand.value)), operand.h)
           [] OTHER -> Val(VUndefined, raise(RtUnknownOperator, operand.h)))

bindParameters(parameters, args, i, funcEnv, h) ==
  IF i > Len(parameters) THEN h
  ELSE bindParameters(parameters, args, i + 1, funcEnv,
                      define(funcEnv, parameters[i], args[i], h))

evaluateCallExpression(expr, env, h) ==
  With(evaluateExpression(expr.callee, env, h), LAMBDA callee :
    IF callee.h.err # "" THEN Val(VUndefined, callee.h)
    ELSE IF callee.value.kind \notin {"function", "builtin"}
      THEN Val(VUndefined, raise(RtNotCallable, callee.h))
    ELSE
    With(evaluateExpressions(expr.arguments, 1, <<>>, env, callee.h), LAMBDA args :
      IF args.h.err # "" THEN Val(VUndefined, args.h)
      ELSE IF callee.value.kind = "builtin"
        THEN callBuiltin(callee.value.name, args.values, args.h)
      ELSE IF Len(args.values) # Len(callee.value.parameters)
        THEN Val(VUndefined, raise(RtArity, args.h))
      ELSE
      With(extend(callee.value.closure, args.h), LAMBDA funcEnv :
        evaluateExpression(callee.value.body, funcEnv.id,
          bindParameters(callee.value.parameters, args.values, 1,
                         funcEnv.id, funcEnv.h)))))

evaluateArrayExpression(expr, env, h) ==
  With(evaluateExpressions(expr.elements, 1, <<>>, env, h), LAMBDA es :
    Val(VArray(es.values), es.h))

evaluateProperties(properties, i, fields, env, h) ==
  IF i > Len(properties) \/ h.err # "" THEN Val(VObject(fields), h)
  ELSE With(evaluateExpression(properties[i].value, env, h), LAMBDA v :
         evaluateProperties(properties, i + 1,
                            ObjSet(fields, properties[i].key, v.value), env, v.h))

evaluateObjectExpression(expr, env, h) ==
  evaluateProperties(expr.properties, 1, <<>>, env, h)

evaluateMemberExpression(expr, env, h) ==
  With(evaluateExpression(expr.object, env, h), LAMBDA object :
    LET o == object.value
    IN IF object.h.err # "" THEN Val(VUndefined, object.h)
       ELSE IF o.kind \in {"null", "undefined"}
         THEN Val(VUndefined, raise(RtNullProperty, object.h))
       ELSE IF TypeOf(o) # "object" \/ o.kind = "array"
         THEN Val(VUndefined, raise(RtNonObjectProperty, object.h))
       ELSE IF o.kind = "object" /\ ObjHas(o.fields, expr.property)
               /\ ObjGet(o.fields, expr.property).kind # "undefined"
         THEN Val(ObjGet(o.fields, expr.property), object.h)
       ELSE IF o.kind \in {"function", "builtin"} /\ expr.property = "kind"
         THEN Val(VStr("function"), object.h)
       ELSE Val(VUndefined, raise(RtNoProperty, object.h)))

evaluateIndexExpression(expr, env, h) ==
  With(evaluateExpression(expr.array, env, h), LAMBDA array :
  With(evaluateExpression(expr.index, env, array.h), LAMBDA index :
    IF index.h.err # "" THEN Val(VUndefined, index.h)
    ELSE IF array.value.kind # "array"
      THEN Val(VUndefined, raise(RtIndexNonArray, index.h))
    ELSE IF index.value.kind # "number"
      THEN Val(VUndefined, raise(RtIndexNotNumber, index.h))
    ELSE IF index.value.value < 0 \/ index.value.value >= Len(array.value.elements)
      THEN Val(VUndefined, raise(RtIndexBounds, index.h))
    ELSE Val(array.value.elements[index.value.value + 1], index.h)))

evaluateFunctionExpression(expr, env, h) ==
  Val(VFunction([i \in 1..Len(expr.parameters) |-> expr.parameters[i].name],
                expr.body, env), h)

evaluateIfExpression(expr, env, h) ==
  With(evaluateExpression(expr.condition, env, h), LAMBDA condition :
    IF condition.h.err # "" THEN Val(VUndefined, condition.h)
    ELSE IF isTruthy(condition.value) \/ expr.elseBranch.kind # "None"
      THEN evaluateExpression(IF isTruthy(condition.value)
                              THEN expr.thenBranch
                              ELSE expr.elseBranch, env, condition.h)
    ELSE Val(VNull, condition.h))

\* evaluateLetStatement and evaluateVariableDeclaration read the
\* declaration's identifier and initializer: the one binding of the node
evaluateLetStatement(stmt, env, h) ==
  IF Len(stmt.bindings) # 1 THEN raise(RtHost, h)
  ELSE With(evaluateExpression(stmt.bindings[1].initializer, env, h),
         LAMBDA value : define(env, stmt.bindings[1].name, value.value, value.h))

evaluateVariableDeclaration(decl, env, h) == evaluateLetStatement(decl, env, h)

evaluateStatements(statements, i, env, h) ==
  IF i > Len(statements) \/ h.err # "" THEN h
  ELSE IF statements[i].kind = "LetStatement"
    THEN evaluateStatements(statements, i + 1, env,
                            evaluateLetStatement(statements[i], env, h))
  ELSE raise(RtUnknownStatement, h)

evaluateBlockExpression(expr, env, h) ==
  With(extend(env, h), LAMBDA blockEnv :
    evaluateExpression(expr.expression, blockEnv.id,
      evaluateStatements(expr.statements, 1, blockEnv.id, blockEnv.h)))

\* matchesPattern and the loop of evaluateMatchExpression: the first case
\* whose pattern matches gives the result
evaluateCases(cases, i, value, env, h) ==
  IF h.err # "" THEN Val(VUndefined, h)
  ELSE IF i > Len(cases) THEN Val(VUndefined, raise(RtNoMatch, h))
  ELSE
  CASE cases[i].pattern.kind = "LiteralPattern" ->
         With(evaluateExpression(cases[i].pattern.value, env, h), LAMBDA literal :
           IF literal.h.err # "" THEN Val(VUndefined, literal.h)
           ELSE IF isEqual(value, literal.value)
             THEN evaluateExpression(cases[i].body, env, literal.h)
           ELSE evaluateCases(cases, i + 1, value, env, literal.h))
    [] cases[i].pattern.kind \in {"IdentifierPattern", "WildcardPattern"} ->
         evaluateExpression(cases[i].body, env,
           IF cases[i].pattern.kind = "IdentifierPattern"
           THEN define(env, cases[i].pattern.name, value, h)
           ELSE h)
    [] OTHER -> Val(VUndefined, raise(RtUnknownPattern, h))

evaluateMatchExpression(expr, env, h) ==
  With(evaluateExpression(expr.expression, env, h), LAMBDA value :
    evaluateCases(expr.cases, 1, value.value, env, value.h))

evaluateExpression(expr, env, h) ==
  IF h.err # "" THEN Val(VUndefined, h)
  ELSE
  CASE expr.kind = "NumberLiteral" -> Val(VNum(expr.value), h)
    [] expr.kind = "StringLiteral" -> Val(VStr(expr.value), h)
    [] expr.kind = "BooleanLiteral" -> Val(VBool(expr.value), h)
    [] expr.kind = "NullLiteral" -> Val(VNull, h)
    [] expr.kind = "UndefinedLiteral" -> Val(VUndefined, h)
    [] expr.kind = "Identifier" -> evaluateIdentifier(expr, env, h)
    [] expr.kind = "BinaryExpression" -> evaluateBinaryExpression(expr, env, h)
    [] expr.kind = "UnaryExpression" -> evaluateUnaryExpression(expr, env, h)
    [] expr.kind = "CallExpression" -> evaluateCallExpression(expr, env, h)
    [] expr.kind = "ArrayExpression" -> evaluateArrayExpression(expr, env, h)
    [] expr.kind = "ObjectExpression" -> evaluateObjectExpression(expr, env, h)
    [] expr.kind = "MemberExpression" -> evaluateMemberExpression(expr, env, h)
    [] expr.kind = "IndexExpression" -> evaluateIndexExpression(expr, env, h)
    [] expr.kind = "FunctionExpression" -> evaluateFunctionExpression(expr, env, h)
    [] expr.kind = "IfExpression" -> evaluateIfExpression(expr, env, h)
    [] expr.kind = "BlockExpression" -> evaluateBlockExpression(expr, env, h)
    [] expr.kind = "MatchExpression" -> evaluateMatchExpression(expr, env, h)
    [] OTHER -> Val(VUndefined, raise(RtUnknownKind, h))

----------------------------------------------------------------------------
(* The programs the checker and the evaluator are run on.  Each is built   *)
(* from an input record; the records range over the field sets and the     *)
(* literal kinds below.                                                    *)

MaxFields == 3
FieldNames == SubSeq(<<"x", "y", "z", "w", "v">>, 1, MaxFields)
Fields == {FieldNames[i] : i \in 1..MaxFields}
LitKinds == {"number", "string", "boolean"}
Positions == {"top", "block", "iife"}

LitOf(k) ==
  CASE k = "number" -> Num(1)
    [] k = "string" -> Str("hi")
    [] OTHER -> Bool(TRUE)
LitType(k) ==
  CASE k = "number" -> numberType
    [] k = "string" -> stringType
    [] OTHER -> booleanType

\* the record literal { f: lit, ... } over the fields of S, in the order of
\* FieldNames
RecordOf(S, lit) ==
  LET keys == SelectSeq(FieldNames, LAMBDA f : f \in S)
  IN Obj([i \in 1..Len(keys) |-> Prop(keys[i], lit)])

RECURSIVE SumOf(_, _, _)
\* p.f1 + p.f2 + ... over the fields of keys from index i on
SumOf(keys, i, name) ==
  IF i = Len(keys) THEN Member(Id(name), keys[i])
  ELSE Bin("+", Member(Id(name), keys[i]), SumOf(keys, i + 1, name))

Input(family, position, field, need, given, lit, lit2) ==
  [family |-> family, position |-> position, field |-> field, need |-> need,
   given |-> given, lit |-> lit, lit2 |-> lit2]

Inputs ==
  {Input("poly", pos, "", {}, {}, l1, l2) :
     pos \in {"top", "block"}, l1 \in LitKinds, l2 \in LitKinds}
  \cup {Input("field", pos, f, {}, S, l, "") :
     pos \in Positions, f \in Fields, S \in SUBSET Fields, l \in {"number", "string"}}
  \cup {Input("arith", pos, "", {}, {}, l, "") : pos \in Positions, l \in LitKinds}
  \cup {Input("closed", pos, "", N, S, "number", "") :
     pos \in {"top", "block"}, N \in SUBSET Fields, S \in SUBSET Fields}
  \cup {Input("fnsub", pos, "", N, S, "number", "") :
     pos \in {"top", "block"}, N \in (SUBSET Fields) \ {{}}, S \in SUBSET Fields}
  \cup {Input("selfapp", pos, "", {}, {}, "", "") : pos \in Positions}
  \cup {Input("dict", pos, "", {}, {}, k, v) :
     pos \in Positions, k \in {"number", "string"}, v \in LitKinds}
  \cup {Input("annot", pos, "", {}, {}, k, e) :
     pos \in {"top", "block"}, k \in LitKinds, e \in LitKinds}
  \cup {Input("join", pos, f, A, B, "number", "") :
     pos \in {"top", "block"}, f \in Fields, A \in SUBSET Fields,
     B \in SUBSET Fields}
  \cup {Input("match", "top", "", {}, {}, l, "") : l \in {"neg", "zero", "pos"}}
  \cup {Input("logic", "top", "", {}, {}, op, l) :
     op \in {"&&", "||"}, l \in {"true", "false"}}
  \cup {Input(fam, pos, "", {}, {}, "", "") :
     fam \in {"recur", "rowgen"}, pos \in {"top", "block"}}
  \cup {Input("reuse", pos, "", {}, {}, l1, l2) :
     pos \in {"top", "block"}, l1 \in LitKinds, l2 \in LitKinds}
  \cup {Input("rows", pos, "", {}, {}, l, "") :
     pos \in {"top", "block"}, l \in {"first", "second"}}
  \cup {Input("undef", pos, "", {}, {}, "", "") : pos \in {"top", "block"}}
  \cup {Input("shadow", pos, "", {}, {}, l, "") :
     pos \in {"top", "block"}, l \in {"variable", "closure"}}
  \cup {Input(fam, "top", "", {}, {}, "", "") :
     fam \in {"escape", "selfref", "mutual", "arity", "builtin"}}

\* one let per item at top level; the same lets as statements of one block,
\* with the last item as the block's value
AsBlock(lets, final) ==
  <<Block([i \in 1..Len(lets) |-> LetStmt(lets[i].bindings)], final)>>

PolyLets(in) ==
  <<Let(<<Binding("id", Fn(<<Param("x")>>, Id("x")))>>),
    Let(<<Binding("a", Call(Id("id"), <<LitOf(in.lit)>>))>>),
    Let(<<Binding("b", Call(Id("id"), <<LitOf(in.lit2)>>))>>)>>

GetField(f) == Fn(<<Param("p")>>, Member(Id("p"), f))
FieldLets(in) == <<Let(<<Binding("get", GetField(in.field))>>)>>
FieldCall(in, callee) == Call(callee, <<RecordOf(in.given, LitOf(in.lit))>>)

Double == Fn(<<Param("x")>>, Bin("*", Id("x"), Num(2)))
ArithLets == <<Let(<<Binding("f", Double)>>)>>

Only(N) ==
  Fn(<<Param("p")>>, If(Bool(TRUE), Id("p"), RecordOf(N, Num(1))))
ClosedLets(in) ==
  <<Let(<<Binding("only", Only(in.need))>>),
    Let(<<Binding("r", Call(Id("only"), <<RecordOf(in.given, Num(1))>>))>>)>>

FnSubLets(in) ==
  <<Let(<<Binding("get",
       Fn(<<Param("p")>>,
          SumOf(SelectSeq(FieldNames, LAMBDA f : f \in in.need), 1, "p")))>>),
    Let(<<Binding("callWith",
       Fn(<<Param("f")>>, Call(Id("f"), <<RecordOf(in.given, Num(1))>>)))>>),
    Let(<<Binding("r", Call(Id("callWith"), <<Id("get")>>))>>)>>

\* let v = if (true) { A: 1 } else { B: 0 }; let r = v.f
JoinLets(in) ==
  <<Let(<<Binding("v", If(Bool(TRUE), RecordOf(in.need, Num(1)),
                          RecordOf(in.given, Num(0))))>>),
    Let(<<Binding("r", Member(Id("v"), in.field))>>)>>

\* the dictionary [k1: v, k2: v] with keys of kind in.lit, and its first key
KeyOf(k, n) == IF k = "number" THEN Num(n) ELSE Str(FieldNames[n])
DictOf(in) ==
  Dict(<<Entry(KeyOf(in.lit, 1), LitOf(in.lit2)),
         Entry(KeyOf(in.lit, 2), LitOf(in.lit2))>>)
\* let m = [k1: v, k2: v]; let first = m[k1]
DictLets(in) ==
  <<Let(<<Binding("m", DictOf(in))>>),
    Let(<<Binding("first", Index(Id("m"), KeyOf(in.lit, 1)))>>)>>

\* let nums: [k] = [e, e, e]; then nums[0] + nums[1] + nums[2] over numbers
\* and nums[0] otherwise
ElementsOf(k) ==
  IF k = "number" THEN <<Num(1), Num(2), Num(3)>> ELSE <<LitOf(k), LitOf(k), LitOf(k)>>
AnnotLets(in) ==
  <<Let(<<Annotated("nums", ArrayTypeExpr(PrimitiveTypeExpr(in.lit)),
                    Arr(ElementsOf(in.lit2)))>>)>>
AnnotUse(in) ==
  IF in.lit2 = "number"
  THEN Bin("+", Bin("+", Index(Id("nums"), Num(0)), Index(Id("nums"), Num(1))),
           Index(Id("nums"), Num(2)))
  ELSE Index(Id("nums"), Num(0))

\* match d { x if x < 0 => "neg", 0 => "zero", _ => "pos" } for the
\* discriminant d that the label names
Discriminant(label) ==
  CASE label = "neg" -> Num(-1)
    [] label = "zero" -> Num(0)
    [] OTHER -> Num(5)
MatchSign(in) ==
  Match(Discriminant(in.lit),
        <<MatchCase(IdentifierPattern("x"), Bin("<", Id("x"), Num(0)), Str("neg")),
          MatchCase(LiteralPattern(Num(0)), None, Str("zero")),
          MatchCase(WildcardPattern, None, Str("pos"))>>)

\* l && (1 / 0 == 0) and l || (1 / 0 == 0): the right operand throws
\* 'Division by zero' when it is evaluated
Logic(in) ==
  Bin(in.lit, Bool(in.lit2 = "true"), Bin("==", Bin("/", Num(1), Num(0)), Num(0)))

SelfApp == Fn(<<Param("g")>>, Call(Id("g"), <<Id("g")>>))

Parity(other, base) ==
  Fn(<<Param("n")>>,
     If(Bin("==", Id("n"), Num(0)), Bool(base),
        Call(Id(other), <<Bin("-", Id("n"), Num(1))>>)))

\* let two = (p, q) => p.x + q.x; let h = two
RowGenLets ==
  <<Let(<<Binding("two",
       Fn(<<Param("p"), Param("q")>>,
          Bin("+", Member(Id("p"), FieldNames[1]),
                   Member(Id("q"), FieldNames[1]))))>>),
    Let(<<Binding("h", Id("two"))>>)>>

\* let x = 10; let f = () => x; let m = match 5 { x => x + 1 }; then x, or
\* f() for the closure made before the match
ShadowLets ==
  <<Let(<<Binding("x", Num(10))>>),
    Let(<<Binding("f", Fn(<<>>, Id("x")))>>),
    Let(<<Binding("m",
       Match(Num(5), <<MatchCase(IdentifierPattern("x"), None,
                                 Bin("+", Id("x"), Num(1)))>>))>>)>>
ShadowUse(in) ==
  IF in.lit = "variable" THEN Id("x") ELSE Call(Id("f"), <<>>)

\* let id = (x) => x; let g = id(id); let a = g(l1); let b = g(l2)
ReuseLets(in) ==
  <<Let(<<Binding("id", Fn(<<Param("x")>>, Id("x")))>>),
    Let(<<Binding("g", Call(Id("id"), <<Id("id")>>))>>),
    Let(<<Binding("a", Call(Id("g"), <<LitOf(in.lit)>>))>>),
    Let(<<Binding("b", Call(Id("g"), <<LitOf(in.lit2)>>))>>)>>

\* let id = (x) => x; let get1 = (p) => p.x; let get2 = (q) => q.x;
\* let fs = [get1, get2] (or [get2, get1]); let n = id(1)
RowsLets(in) ==
  <<Let(<<Binding("id", Fn(<<Param("x")>>, Id("x")))>>),
    Let(<<Binding("get1", GetField(FieldNames[1]))>>),
    Let(<<Binding("get2", Fn(<<Param("q")>>, Member(Id("q"), FieldNames[1])))>>),
    Let(<<Binding("fs", Arr(IF in.lit = "first"
                            THEN <<Id("get1"), Id("get2")>>
                            ELSE <<Id("get2"), Id("get1")>>))>>),
    Let(<<Binding("n", Call(Id("id"), <<Num(1)>>))>>)>>

\* a line typed at the REPL prompt:
\* let id = (x) => x; let n = id(1); let k = length(["s"])
ReplLine ==
  <<Let(<<Binding("id", Fn(<<Param("x")>>, Id("x")))>>),
    Let(<<Binding("n", Call(Id("id"), <<Num(1)>>))>>),
    Let(<<Binding("k", Call(Id("length"), <<Arr(<<Str("s")>>)>>))>>)>>

ProgramOf(in) ==
  CASE in.family = "poly" ->
         IF in.position = "top" THEN PolyLets(in) \o <<Id("b")>>
         ELSE AsBlock(PolyLets(in), Id("b"))
    [] in.family = "field" ->
         IF in.position = "top"
         THEN FieldLets(in) \o <<Let(<<Binding("r", FieldCall(in, Id("get")))>>),
                                 Id("r")>>
         ELSE IF in.position = "block"
         THEN AsBlock(FieldLets(in), FieldCall(in, Id("get")))
         ELSE <<FieldCall(in, GetField(in.field))>>
    [] in.family = "arith" ->
         IF in.position = "top"
         THEN ArithLets \o <<Call(Id("f"), <<LitOf(in.lit)>>)>>
         ELSE IF in.position = "block"
         THEN AsBlock(ArithLets, Call(Id("f"), <<LitOf(in.lit)>>))
         ELSE <<Call(Double, <<LitOf(in.lit)>>)>>
    [] in.family = "closed" ->
         IF in.position = "top" THEN ClosedLets(in) \o <<Id("r")>>
         ELSE AsBlock(ClosedLets(in), Id("r"))
    [] in.family = "fnsub" ->
         IF in.position = "top" THEN FnSubLets(in) \o <<Id("r")>>
         ELSE AsBlock(FnSubLets(in), Id("r"))
    [] in.family = "selfapp" ->
         IF in.position = "top" THEN <<Let(<<Binding("f", SelfApp)>>)>>
         ELSE IF in.position = "block"
         THEN AsBlock(<<Let(<<Binding("f", SelfApp)>>)>>, Num(1))
         ELSE <<SelfApp>>
    [] in.family = "join" ->
         IF in.position = "top" THEN JoinLets(in) \o <<Id("r")>>
         ELSE AsBlock(JoinLets(in), Id("r"))
    [] in.family = "dict" ->
         IF in.position = "top" THEN DictLets(in)
         ELSE IF in.position = "block" THEN AsBlock(DictLets(in), Id("first"))
         ELSE <<Let(<<Binding("first", Index(DictOf(in), KeyOf(in.lit, 1)))>>)>>
    [] in.family = "annot" ->
         IF in.position = "top" THEN AnnotLets(in) \o <<AnnotUse(in)>>
         ELSE AsBlock(AnnotLets(in), AnnotUse(in))
    [] in.family = "escape" ->
         <<Let(<<Binding("f",
              Fn(<<Param("x")>>,
                 If(Bool(TRUE), Id("x"), Fn(<<Param("y")>>, Id("y")))))>>)>>
    [] in.family = "match" -> <<MatchSign(in)>>
    [] in.family = "logic" -> <<Logic(in)>>
    [] in.family = "recur" ->
         IF in.position = "top"
         THEN <<Let(<<Binding("even", Parity("even", TRUE))>>),
                Call(Id("even"), <<Num(2)>>)>>
         ELSE AsBlock(<<Let(<<Binding("even", Parity("even", TRUE))>>)>>,
                      Call(Id("even"), <<Num(2)>>))
    [] in.family = "selfref" ->
         <<Let(<<Binding("selfRef", Obj(<<Prop("self", Id("selfRef"))>>))>>)>>
    [] in.family = "line" -> ReplLine
    [] in.family = "rows" ->
         IF in.position = "top" THEN RowsLets(in) \o <<Id("n")>>
         ELSE AsBlock(RowsLets(in), Id("n"))
    [] in.family = "reuse" ->
         IF in.position = "top" THEN ReuseLets(in) \o <<Id("b")>>
         ELSE AsBlock(ReuseLets(in), Id("b"))
    [] in.family = "undef" ->
         IF in.position = "top"
         THEN <<Let(<<Binding("u", Undefined)>>), Id("u")>>
         ELSE <<Let(<<Binding("u", Num(1))>>)>>
              \o AsBlock(<<Let(<<Binding("u", Undefined)>>)>>, Id("u"))
    [] in.family = "shadow" ->
         IF in.position = "top" THEN ShadowLets \o <<ShadowUse(in)>>
         ELSE AsBlock(ShadowLets, ShadowUse(in))
    [] in.family = "rowgen" ->
         IF in.position = "top" THEN RowGenLets \o <<Id("h")>>
         ELSE AsBlock(RowGenLets, Id("h"))
    [] in.family = "mutual" ->
         <<Let(<<Binding("even", Parity("odd", TRUE)),
                 Binding("odd", Parity("even", FALSE))>>),
           Let(<<Binding("r", Call(Id("even"), <<Num(2)>>))>>)>>
    [] in.family = "arity" ->
         <<Let(<<Binding("two", Fn(<<Param("p"), Param("q")>>, Id("p")))>>),
           Let(<<Binding("callWith",
              Fn(<<Param("f")>>, Call(Id("f"), <<RecordOf(Fields, Num(1))>>)))>>),
           Let(<<Binding("r", Call(Id("callWith"), <<Id("two")>>))>>)>>
    [] OTHER ->
         <<Let(<<Binding("n", Call(Id("length"), <<Arr(<<Num(1), Num(2)>>)>>))>>),
           Let(<<Binding("h", Call(Id("head"), <<Arr(<<Str("a")>>)>>))>>),
           Bin("+", Id("n"), Num(1))>>

----------------------------------------------------------------------------
(* The run of one program: TypeInferrer.infer item by item, then           *)
(* Evaluator.evaluate item by item (the command line and the REPL evaluate *)
(* only what inference accepted).                                          *)

\* builtins.ts: the first id of the type variables of the built-in schemes
BuiltinTypeVarBase == 10000
BuiltinNames == {"length", "head"}
builtinTypeScheme(name) ==
  LET a == TypeVar(BuiltinTypeVarBase)
  IN IF name = "length"
     THEN [typeVars |-> <<a>>, type |-> functionType(<<arrayType(a)>>, numberType)]
     ELSE [typeVars |-> <<a>>, type |-> functionType(<<arrayType(a)>>, a)]

createInitialEnv == [name \in BuiltinNames |-> builtinTypeScheme(name)]

applySubstitutionToEnv(env, substitution) ==
  [name \in DOMAIN env |->
     [typeVars |-> env[name].typeVars,
      type |-> applySubstitution(substitution, env[name].type)]]

RECURSIVE resolveBindings(_, _, _, _)
\* the loop of infer over the bindings of a top-level let
resolveBindings(bindings, i, env, substitution) ==
  IF i > Len(bindings) THEN env
  ELSE LET name == bindings[i].name
       IN resolveBindings(bindings, i + 1,
            IF name \in DOMAIN env
            THEN EnvSet(env, name,
                   [typeVars |-> env[name].typeVars,
                    type |-> applySubstitution(substitution, env[name].type)])
            ELSE env,
            substitution)

\* new Evaluator(): the global frame holds the built-ins
createGlobalEnvironment ==
  [frames |-> <<[bindings |-> [name \in BuiltinNames |-> VBuiltin(name)],
                 parent |-> 0]>>,
   err |-> ""]
globalEnv == 1

VARIABLES
  input,                   \* the record the program was built from
  program,                 \* Program.body
  phase,                   \* "infer", "evaluate", "typeError", "runtimeError", "done"
  pc,                      \* the index of the next item of program.body
  env,                     \* the TypeEnv of infer
  typeVarCounter,          \* types.ts
  rowVarCounter,           \* types.ts
  constraints,             \* TypeInferrer.constraints
  fieldAccessConstraints,  \* TypeInferrer.fieldAccessConstraints
  typeError,               \* the message of the TypeError thrown by infer
  substitution,            \* what solveConstraints returned for the last item
  gens,                    \* history: the schemes formed while inferring the last item
  calls,                   \* history: the call sites of the last item
  solved,                  \* history: the field-access constraints of the last item
  heap,                    \* the Environment objects of the evaluator
  result,                  \* the value of the last item evaluated
  runtimeError             \* the message of the error thrown by evaluate

\* module_loader.ts: one ModuleLoader and the loadModule calls made on it
VARIABLES
  files,                   \* the module files: path -> [imports, body]
  cache,                   \* ModuleLoader.cache: path -> ModuleRecord
  loading,                 \* ModuleLoader.loading
  stacks,                  \* per caller, the suspended async calls, innermost last
  returned,                \* per caller, what the innermost call settled with
  outcome,                 \* per caller, the path and the result of its last call
  started                  \* per caller, whether it has made its call

loaderVars == <<files, cache, loading, stacks, returned, outcome, started>>

vars ==
  <<input, program, phase, pc, env, typeVarCounter, rowVarCounter, constraints,
    fieldAccessConstraints, typeError, substitution, gens, calls, solved, heap,
    result, runtimeError, files, cache, loading, stacks, returned, outcome,
    started>>

Callers == {1, 2}
NoResult == [kind |-> "none"]
Returned(record) == [kind |-> "record", record |-> record]
Thrown(message) == [kind |-> "error", message |-> message]
NoCall == [call |-> "", path |-> "", result |-> NoResult]

\* no loader is in use
LoaderUnused ==
  /\ files = << >>
  /\ cache = << >>
  /\ loading = {}
  /\ stacks = [c \in Callers |-> <<>>]
  /\ returned = [c \in Callers |-> NoResult]
  /\ outcome = [c \in Callers |-> NoCall]
  /\ started = [c \in Callers |-> FALSE]

Init ==
  /\ input \in Inputs
  /\ program = ProgramOf(input)
  /\ phase = "infer"
  /\ pc = 1
  /\ env = createInitialEnv
  /\ typeVarCounter = 0
  /\ rowVarCounter = 0
  /\ constraints = <<>>
  /\ fieldAccessConstraints = <<>>
  /\ typeError = ""
  /\ substitution = EmptySub
  /\ gens = <<>>
  /\ calls = <<>>
  /\ solved = <<>>
  /\ heap = createGlobalEnvironment
  /\ result = VNull
  /\ runtimeError = ""
  /\ LoaderUnused

\* the body of the loop of infer: generate the item's constraints, solve
\* them, apply the substitution to the environment.  The result holds the
\* inferencer's state and environment as the iteration leaves them, and the
\* constraints as they were handed to solveConstraints.
inferItem(expr, typeEnv, st) ==
  With(inferExpression(expr, typeEnv, st), LAMBDA r :
  With(solveConstraints(r.st), LAMBDA s :
    [st |-> s.st,
     sub |-> s.sub,
     generated |-> r.st,
     env |-> IF s.st.err # "" THEN r.env
             ELSE IF expr.kind = "VariableDeclaration"
               THEN resolveBindings(expr.bindings, 1,
                      applySubstitutionToEnv(r.env, s.sub), s.sub)
             ELSE applySubstitutionToEnv(r.env, s.sub)]))

\* one iteration of the loop of infer
InferItem ==
  /\ phase = "infer"
  /\ pc <= Len(program)
  /\ \E item \in {inferItem(program[pc], env,
                             [tv |-> typeVarCounter, rv |-> rowVarCounter,
                              cs |-> constraints, fcs |-> fieldAccessConstraints,
                              err |-> "", gens |-> <<>>, calls |-> <<>>,
                              open |-> 0])} :
        /\ typeVarCounter' = item.st.tv
        /\ rowVarCounter' = item.st.rv
        /\ constraints' = item.st.cs
        /\ fieldAccessConstraints' = item.st.fcs
        /\ gens' = item.generated.gens
        /\ calls' = item.generated.calls
        /\ solved' = item.generated.fcs
        /\ substitution' = item.sub
        /\ typeError' = item.st.err
        /\ env' = item.env
        /\ phase' = IF item.st.err # "" THEN "typeError" ELSE "infer"
        /\ pc' = IF item.st.err # "" THEN pc ELSE pc + 1
  /\ UNCHANGED <<input, program, heap, result, runtimeError>>
  /\ UNCHANGED loaderVars

\* evaluation started while items of the program are still to be inferred
InferReturnEarly ==
  /\ phase = "infer"
  /\ phase' = "evaluate"
  /\ pc' = 1
  /\ UNCHANGED <<input, program, env, typeVarCounter, rowVarCounter, constraints,
                 fieldAccessConstraints, typeError, substitution, gens, calls,
                 solved, heap, result, runtimeError>>
  /\ UNCHANGED loaderVars

\* infer returns the environment; evaluation starts
InferReturn ==
  /\ phase = "infer"
  /\ pc > Len(program)
  /\ phase' = "evaluate"
  /\ pc' = 1
  /\ UNCHANGED <<input, program, env, typeVarCounter, rowVarCounter, constraints,
                 fieldAccessConstraints, typeError, substitution, gens, calls,
                 solved, heap, result, runtimeError>>
  /\ UNCHANGED loaderVars

\* one iteration of the loop of evaluate
EvaluateItem ==
  /\ phase = "evaluate"
  /\ pc <= Len(program)
  /\ \E v \in {IF program[pc].kind = "VariableDeclaration"
                THEN Val(result, evaluateVariableDeclaration(program[pc],
                                                             globalEnv, heap))
                ELSE evaluateExpression(program[pc], globalEnv, heap)} :
        /\ heap' = [v.h EXCEPT !.err = ""]
        /\ runtimeError' = v.h.err
        /\ result' = IF v.h.err # "" THEN result ELSE v.value
        /\ phase' = IF v.h.err # "" THEN "runtimeError" ELSE "evaluate"
        /\ pc' = IF v.h.err # "" THEN pc ELSE pc + 1
  /\ UNCHANGED <<input, program, env, typeVarCounter, rowVarCounter, constraints,
                 fieldAccessConstraints, typeError, substitution, gens, calls,
                 solved>>
  /\ UNCHANGED loaderVars

\* evaluate returns the last value
EvaluateReturn ==
  /\ phase = "evaluate"
  /\ pc > Len(program)
  /\ phase' = "done"
  /\ UNCHANGED <<input, program, pc, env, typeVarCounter, rowVarCounter,
                 constraints, fieldAccessConstraints, typeError, substitution,
                 gens, calls, solved, heap, result, runtimeError>>
  /\ UNCHANGED loaderVars

Next == InferItem \/ InferReturn \/ EvaluateItem \/ EvaluateReturn

Spec == Init /\ [][Next]_vars

----------------------------------------------------------------------------
(* The REPL session: one TypeInferrer and one Evaluator, made by the REPL's *)
(* constructor, serve every line; REPL.evaluate catches the error of a line *)
(* and the loop reads the next one.                                         *)

Line == Input("line", "top", "", {}, {}, "", "")

\* the first line of the session: the line itself, an ill-typed program and
\* a well-typed one
ReplInputs ==
  {Line,
   Input("arith", "top", "", {}, {}, "string", ""),
   Input("poly", "top", "", {}, {}, "number", "string")}

\* typeVarCounter of types.ts is a variable of the module, shared by every
\* inferrer of the process and never reset: the session's first
\* freshTypeVar continues from what was inferred before it in the process
\* (the modules loaded, cli.ts 84 and module_loader.ts 101).  The counts
\* modelled: nothing before the session, and so much that the counter is a
\* few ids short of the first id of builtins.ts.
EarlierTypeVars == {0} \cup {BuiltinTypeVarBase - d : d \in 1..8}

InitRepl ==
  /\ input \in ReplInputs
  /\ program = ProgramOf(input)
  /\ phase = "infer"
  /\ pc = 1
  /\ env = createInitialEnv
  /\ typeVarCounter \in EarlierTypeVars
  /\ rowVarCounter = 0
  /\ constraints = <<>>
  /\ fieldAccessConstraints = <<>>
  /\ typeError = ""
  /\ substitution = EmptySub
  /\ gens = <<>>
  /\ calls = <<>>
  /\ solved = <<>>
  /\ heap = createGlobalEnvironment
  /\ result = VNull
  /\ runtimeError = ""
  /\ LoaderUnused

\* REPL.evaluate returned (a value or the caught error) and is called with
\* the next line: inferAndSolve on this.inferrer without an environment
\* override, then this.evaluator.evaluate.  The inferrer's two lists, the
\* counters of types.ts and the evaluator's global environment are what the
\* previous lines left.  The sessions modelled have two lines.
ReplNext ==
  /\ phase \in {"typeError", "runtimeError", "done"}
  /\ input # Line
  /\ input' = Line
  /\ program' = ProgramOf(Line)
  /\ phase' = "infer"
  /\ pc' = 1
  /\ env' = createInitialEnv
  /\ typeError' = ""
  /\ runtimeError' = ""
  /\ result' = VNull
  /\ substitution' = EmptySub
  /\ gens' = <<>>
  /\ calls' = <<>>
  /\ solved' = <<>>
  /\ UNCHANGED <<typeVarCounter, rowVarCounter, constraints,
                 fieldAccessConstraints, heap>>
  /\ UNCHANGED loaderVars

NextRepl ==
  InferItem \/ InferReturn \/ EvaluateItem \/ EvaluateReturn \/ ReplNext

SpecRepl == InitRepl /\ [][NextRepl]_vars

----------------------------------------------------------------------------
(* module_loader.ts: ModuleLoader.  An async call runs until its next      *)
(* await; each action below is one such run of the innermost call of one   *)
(* caller.  The loader's fields, and the counters of types.ts, are shared  *)
(* by all the calls.                                                       *)

\* the names bound by the top-level lets of a program
DeclaredNames(body) ==
  UNION {{body[i].bindings[j].name : j \in 1..Len(body[i].bindings)} :
           i \in {k \in 1..Len(body) : body[k].kind = "VariableDeclaration"}}

Paths == {"a", "b", "c"}
ErrCircular == "Circular import detected"
ErrNoExport == "does not export"
ErrNoRuntimeExport == "is missing runtime export"

\* import { id } from "<source>"
ImportDecl(source) == [source |-> source, imported |-> "id", local |-> "id"]
Source(imports, body) == [imports |-> imports, body |-> body]

\* the module bodies, by name: a well-typed module that exports id; one that
\* inference rejects; one that exports id and fails when it is evaluated;
\* one that exports nothing
BodyKinds == {"ok", "illTyped", "throws", "plain"}
ModuleBody(kind) ==
  CASE kind = "ok" ->
         <<Let(<<Binding("id", Fn(<<Param("x")>>, Id("x")))>>),
           Call(Id("id"), <<Num(1)>>)>>
    [] kind = "illTyped" -> ArithLets \o <<Call(Id("f"), <<Str("hi")>>)>>
    [] kind = "throws" ->
         <<Let(<<Binding("id", Fn(<<Param("x")>>, Id("x")))>>),
           Bin("/", Num(1), Num(0))>>
    [] OTHER -> <<Num(1)>>

Sources ==
  {Source(imports, body) :
     imports \in {<<>>} \cup {<<ImportDecl(q)>> : q \in Paths},
     body \in BodyKinds}

\* the module files: a and b import at most one module each, c imports
\* nothing and is the one module whose body may be other than the well-typed
\* one
FileSystems ==
  {fs \in [Paths -> Sources] :
     /\ fs["c"].imports = <<>>
     /\ \A p \in Paths \ {"c"} : fs[p].body = "ok"}

RECURSIVE inferProgram(_, _, _, _)
\* TypeInferrer.infer on a new inferrer: [env, st], st.err the TypeError
inferProgram(body, i, typeEnv, st) ==
  IF i > Len(body) THEN [env |-> typeEnv, st |-> st]
  ELSE With(inferItem(body[i], typeEnv, st), LAMBDA item :
         IF item.st.err # "" THEN [env |-> item.env, st |-> item.st]
         ELSE inferProgram(body, i + 1, item.env,
                [item.st EXCEPT !.gens = <<>>, !.calls = <<>>]))

RECURSIVE evaluateProgram(_, _, _, _)
\* Evaluator.evaluate: [value, h], h.err the error thrown
evaluateProgram(body, i, h, last) ==
  IF i > Len(body) \/ h.err # "" THEN Val(last, h)
  ELSE With(IF body[i].kind = "VariableDeclaration"
            THEN Val(last, evaluateVariableDeclaration(body[i], globalEnv, h))
            ELSE evaluateExpression(body[i], globalEnv, h),
         LAMBDA v : evaluateProgram(body, i + 1, v.h, v.value))

\* baseEnv.set(name, scheme) for every type import
withTypeImports(typeEnv, typeImports) ==
  [name \in DOMAIN typeEnv \cup DOMAIN typeImports |->
     IF name \in DOMAIN typeImports THEN typeImports[name] ELSE typeEnv[name]]

\* evaluator.setGlobal(name, value) for every value import
withValueImports(h, valueImports) ==
  [h EXCEPT !.frames[globalEnv].bindings =
     [name \in DOMAIN @ \cup DOMAIN valueImports |->
        IF name \in DOMAIN valueImports THEN valueImports[name] ELSE @[name]]]

\* the state a run of the loader works on: its two fields and the counters
\* of types.ts
LoaderState ==
  [cache |-> cache, loading |-> loading, tv |-> typeVarCounter,
   rv |-> rowVarCounter]

Frame(path, source, at) ==
  [path |-> path, source |-> source, pc |-> at, i |-> 1,
   typeImports |-> << >>, valueImports |-> << >>]

CacheSet(c, path, record) ==
  [p \in DOMAIN c \cup {path} |-> IF p = path THEN record ELSE c[p]]
CacheDelete(c, path) == [p \in DOMAIN c \ {path} |-> c[p]]

\* processModule from the end of the import loop to the record: inference,
\* evaluation, the exports.  [L, result]: the counters after it, and the
\* record or the error thrown
runModule(frame, L) ==
  With(inferProgram(ModuleBody(frame.source.body), 1,
                    withTypeImports(createInitialEnv, frame.typeImports),
                    [tv |-> L.tv, rv |-> L.rv, cs |-> <<>>, fcs |-> <<>>,
                     err |-> "", gens |-> <<>>, calls |-> <<>>, open |-> 0]),
    LAMBDA inferred :
  With([L EXCEPT !.tv = inferred.st.tv, !.rv = inferred.st.rv], LAMBDA L1 :
    IF inferred.st.err # ""
    THEN [L |-> L1, result |-> Thrown(inferred.st.err)]
    ELSE
    With(evaluateProgram(ModuleBody(frame.source.body), 1,
                         withValueImports(createGlobalEnvironment,
                                          frame.valueImports),
                         VNull),
      LAMBDA evaluated :
      IF evaluated.h.err # ""
      THEN [L |-> L1, result |-> Thrown(evaluated.h.err)]
      ELSE
      With(DeclaredNames(ModuleBody(frame.source.body)) \cap DOMAIN inferred.env,
        LAMBDA exportNames :
        [L |-> L1,
         result |->
           Returned([path |-> frame.path,
                     body |-> frame.source.body,
                     typeExports |-> [name \in exportNames |-> inferred.env[name]],
                     valueExports |->
                       [name \in exportNames |->
                          EnvironmentGet(evaluated.h.frames, globalEnv, name).value],
                     lastValue |-> evaluated.value])]))))

\* processModule whose mark is removed at the end of the try block, not in a
\* finally block
finishModuleNoFinally(frame, L) ==
  With(runModule(frame, L), LAMBDA run :
    IF run.result.kind = "error" THEN run
    ELSE [L |-> [run.L EXCEPT !.cache = CacheSet(@, frame.path, run.result.record),
                              !.loading = @ \ {frame.path}],
          result |-> run.result])

\* processModule from the end of the import loop: the record, cache.set,
\* and the finally block.  [L, result]
finishModule(frame, L) ==
  With(runModule(frame, L), LAMBDA run :
    IF run.result.kind = "error"
    THEN [L |-> [run.L EXCEPT !.loading = @ \ {frame.path}], result |-> run.result]
    ELSE [L |-> [run.L EXCEPT !.cache = CacheSet(@, frame.path, run.result.record),
                              !.loading = @ \ {frame.path}],
          result |-> run.result])

\* processModule that hands a module that is still loading to its importer
\* as a record without exports
enterProcessModulePartial(path, source, L) ==
  IF path \in DOMAIN L.cache
  THEN [L |-> L, result |-> Returned(L.cache[path]),
        frame |-> Frame(path, source, "")]
  ELSE IF path \in L.loading
  THEN [L |-> L,
        result |-> Returned([path |-> path, body |-> source.body,
                             typeExports |-> << >>, valueExports |-> << >>,
                             lastValue |-> VNull]),
        frame |-> Frame(path, source, "")]
  ELSE
  With([L EXCEPT !.loading = @ \cup {path}], LAMBDA L1 :
    IF source.imports = <<>>
    THEN With(finishModule(Frame(path, source, ""), L1), LAMBDA done :
           [L |-> done.L, result |-> done.result,
            frame |-> Frame(path, source, "")])
    ELSE [L |-> L1, result |-> NoResult,
          frame |-> Frame(path, source, "resolveSpecifier")])

\* processModule up to its first await: the two checks, loading.add, and,
\* for a module without imports, the rest of the function.  [L, result,
\* frame]; result none means the call is suspended in frame
enterProcessModule(path, source, L) ==
  IF path \in DOMAIN L.cache
  THEN [L |-> L, result |-> Returned(L.cache[path]),
        frame |-> Frame(path, source, "")]
  ELSE IF path \in L.loading
  THEN [L |-> L, result |-> Thrown(ErrCircular), frame |-> Frame(path, source, "")]
  ELSE
  With([L EXCEPT !.loading = @ \cup {path}], LAMBDA L1 :
    IF source.imports = <<>>
    THEN With(finishModule(Frame(path, source, ""), L1), LAMBDA done :
           [L |-> done.L, result |-> done.result,
            frame |-> Frame(path, source, "")])
    ELSE [L |-> L1, result |-> NoResult,
          frame |-> Frame(path, source, "resolveSpecifier")])

\* the body of the import loop after the dependency's record has arrived,
\* and what follows the loop when this was the last import
afterImport(frame, record, L) ==
  With(frame.source.imports[frame.i], LAMBDA importDecl :
    IF importDecl.imported \notin DOMAIN record.typeExports
    THEN [L |-> [L EXCEPT !.loading = @ \ {frame.path}],
          result |-> Thrown(ErrNoExport), frame |-> frame]
    ELSE IF record.valueExports[importDecl.imported].kind = "undefined"
    THEN [L |-> [L EXCEPT !.loading = @ \ {frame.path}],
          result |-> Thrown(ErrNoRuntimeExport), frame |-> frame]
    ELSE
    With([frame EXCEPT
            !.i = @ + 1,
            !.pc = "resolveSpecifier",
            !.typeImports =
              withTypeImports(@, [n \in {importDecl.local} |->
                                    record.typeExports[importDecl.imported]]),
            !.valueImports =
              withTypeImports(@, [n \in {importDecl.local} |->
                                    record.valueExports[importDecl.imported]])],
      LAMBDA next :
        IF next.i <= Len(frame.source.imports)
        THEN [L |-> L, result |-> NoResult, frame |-> next]
        ELSE With(finishModule(next, L), LAMBDA done :
               [L |-> done.L, result |-> done.result, frame |-> next])))

Top(stack) == stack[Len(stack)]
Pop(stack) == SubSeq(stack, 1, Len(stack) - 1)

\* a run of caller c ended: the loader's state after it, the caller's stack,
\* and what the run settled with (none: it is suspended at an await)
Settle(c, stack, settled, L) ==
  /\ cache' = L.cache
  /\ loading' = L.loading
  /\ typeVarCounter' = L.tv
  /\ rowVarCounter' = L.rv
  /\ stacks' = [stacks EXCEPT ![c] = stack]
  /\ returned' = [returned EXCEPT ![c] = IF stack = <<>> THEN NoResult ELSE settled]
  /\ UNCHANGED <<input, program, phase, pc, env, constraints,
                 fieldAccessConstraints, typeError, substitution, gens, calls,
                 solved, heap, result, runtimeError, files>>

\* a run that entered or continued processModule: the call is suspended in
\* its frame, or it settled and its frame is gone
SettleRun(c, below, run) ==
  /\ Settle(c, IF run.result.kind = "none" THEN Append(below, run.frame) ELSE below,
            run.result, run.L)
  /\ outcome' = [outcome EXCEPT ![c].result =
                   IF below = <<>> THEN run.result ELSE @]

InitLoader ==
  /\ files \in FileSystems
  /\ cache = << >>
  /\ loading = {}
  /\ stacks = [c \in Callers |-> <<>>]
  /\ returned = [c \in Callers |-> NoResult]
  /\ outcome = [c \in Callers |-> NoCall]
  /\ started = [c \in Callers |-> FALSE]
  /\ input = Line
  /\ program = <<>>
  /\ phase = "loader"
  /\ pc = 1
  /\ env = createInitialEnv
  /\ typeVarCounter = 0
  /\ rowVarCounter = 0
  /\ constraints = <<>>
  /\ fieldAccessConstraints = <<>>
  /\ typeError = ""
  /\ substitution = EmptySub
  /\ gens = <<>>
  /\ calls = <<>>
  /\ solved = <<>>
  /\ heap = createGlobalEnvironment
  /\ result = VNull
  /\ runtimeError = ""

\* loadModule(path) is called and runs to its await of normalizePath
LoadModule(c, path) ==
  /\ phase = "loader"
  /\ stacks[c] = <<>>
  /\ ~started[c]
  /\ started' = [started EXCEPT ![c] = TRUE]
  /\ outcome' = [outcome EXCEPT ![c] = [call |-> "loadModule", path |-> path,
                                         result |-> NoResult]]
  /\ Settle(c, <<Frame(path, files[path], "normalizePath")>>, NoResult, LoaderState)

\* loadModuleFromSource(path, source): cache.delete, then processModule
LoadModuleFromSource(c, path, source) ==
  /\ phase = "loader"
  /\ stacks[c] = <<>>
  /\ ~started[c]
  /\ started' = [started EXCEPT ![c] = TRUE]
  /\ \E run \in {enterProcessModule(path, source,
                   [LoaderState EXCEPT !.cache = CacheDelete(@, path)])} :
       /\ Settle(c, IF run.result.kind = "none" THEN <<run.frame>> ELSE <<>>,
                 run.result, run.L)
       /\ outcome' = [outcome EXCEPT ![c] = [call |-> "loadModuleFromSource",
                                              path |-> path,
                                              result |-> run.result]]

\* loadModule after normalizePath: the cache check
Normalized(c) ==
  /\ stacks[c] # <<>>
  /\ Top(stacks[c]).pc = "normalizePath"
  /\ IF Top(stacks[c]).path \in DOMAIN cache
     THEN SettleRun(c, Pop(stacks[c]),
            [L |-> LoaderState, result |-> Returned(cache[Top(stacks[c]).path]),
             frame |-> Top(stacks[c])])
     ELSE SettleRun(c, Pop(stacks[c]),
            [L |-> LoaderState, result |-> NoResult,
             frame |-> [Top(stacks[c]) EXCEPT !.pc = "readTextFile"]])
  /\ UNCHANGED started

\* loadModule after readTextFile: processModule is entered
ReadTextFile(c) ==
  /\ stacks[c] # <<>>
  /\ Top(stacks[c]).pc = "readTextFile"
  /\ \E run \in {enterProcessModule(Top(stacks[c]).path, Top(stacks[c]).source,
                                    LoaderState)} :
       SettleRun(c, Pop(stacks[c]), run)
  /\ UNCHANGED started

\* the import loop after resolveSpecifier: loadModule of the dependency is
\* called and runs to its first await
Resolved(c) ==
  /\ stacks[c] # <<>>
  /\ Top(stacks[c]).pc = "resolveSpecifier"
  /\ \E frame \in {Top(stacks[c])} :
       Settle(c, Append(Append(Pop(stacks[c]), [frame EXCEPT !.pc = "loadModule"]),
                        Frame(frame.source.imports[frame.i].source,
                              files[frame.source.imports[frame.i].source],
                              "normalizePath")),
              NoResult, LoaderState)
  /\ UNCHANGED <<outcome, started>>

\* the import loop after the await of loadModule: the dependency's record
\* arrived, or its error is thrown on through the finally block
Resumed(c) ==
  /\ stacks[c] # <<>>
  /\ Top(stacks[c]).pc = "loadModule"
  /\ returned[c].kind # "none"
  /\ IF returned[c].kind = "error"
     THEN SettleRun(c, Pop(stacks[c]),
            [L |-> [LoaderState EXCEPT !.loading = @ \ {Top(stacks[c]).path}],
             result |-> returned[c], frame |-> Top(stacks[c])])
     ELSE \E run \in {afterImport(Top(stacks[c]), returned[c].record, LoaderState)} :
            SettleRun(c, Pop(stacks[c]), run)
  /\ UNCHANGED started

Step(c) == Normalized(c) \/ ReadTextFile(c) \/ Resolved(c) \/ Resumed(c)

NextLoader ==
  \/ \E c \in Callers, path \in Paths : LoadModule(c, path)
  \/ \E c \in Callers, path \in Paths :
       LoadModuleFromSource(c, path, Source(<<>>, "ok"))
  \/ \E c \in Callers : Normalized(c)
  \/ \E c \in Callers : ReadTextFile(c)
  \/ \E c \in Callers : Resolved(c)
  \/ \E c \in Callers : Resumed(c)

SpecLoader == InitLoader /\ [][NextLoader]_vars

\* the modules that the modules of a set import
Imported(modules) ==
  UNION {{files[p].imports[i].source : i \in 1..Len(files[p].imports)} :
           p \in modules \cap Paths}

RECURSIVE ImportClosure(_)
ImportClosure(modules) ==
  IF Imported(modules) \subseteq modules THEN modules
  ELSE ImportClosure(modules \cup Imported(modules))

\* the modules a module imports, directly or transitively
Dependencies(path) == ImportClosure(Imported({path}))

\* the event loop runs every continuation whose await has settled; the
\* module files are those with a cycle of imports and well-typed bodies
InitFairLoader ==
  /\ InitLoader
  /\ files["c"].body = "ok"
  /\ \E p \in Paths : p \in Dependencies(p)
FairSpecLoader ==
  InitFairLoader /\ [][NextLoader]_vars /\ \A c \in Callers : WF_vars(Step(c))

----------------------------------------------------------------------------
(* Properties.                                                             *)

\* an item has been inferred and its constraints solved without a TypeError
ItemSolved == typeError = "" /\ ~(phase = "infer" /\ pc = 1)
\* infer has returned
Inferred == phase \in {"evaluate", "runtimeError", "done"}

RECURSIVE TypeVarsOf(_)
\* the ids of the TypeVar nodes of a type (row variables are not counted)
TypeVarsOf(type) ==
  CASE type.kind = "TypeVar" -> {type.id}
    [] type.kind = "ArrayType" -> TypeVarsOf(type.elementType)
    [] type.kind = "DictType" ->
         TypeVarsOf(type.keyType) \cup TypeVarsOf(type.valueType)
    [] type.kind = "FunctionType" ->
         UNION {TypeVarsOf(type.paramTypes[i]) : i \in 1..Len(type.paramTypes)}
           \cup TypeVarsOf(type.returnType)
    [] type.kind = "ObjectType" ->
         UNION {TypeVarsOf(type.fields[i].type) : i \in 1..Len(type.fields)}
    [] OTHER -> {}

Quantified(scheme) == {scheme.typeVars[i].id : i \in 1..Len(scheme.typeVars)}
Solve(type) == applySubstitution(substitution, type)
ClosedRecord(S, type) ==
  LET keys == SelectSeq(FieldNames, LAMBDA f : f \in S)
  IN objectType([i \in 1..Len(keys) |-> [key |-> keys[i], type |-> type]], NoRowVar)
GenOf(name) == gens[CHOOSE i \in 1..Len(gens) : gens[i].name = name]

\* C1: soundness.  A program that inference accepted does not fail at run
\* time with an error that a type error shows as (an operator applied to
\* operands of the wrong type, a call of a non-function or with the wrong
\* number of arguments, a read of a field the record does not have),
\* wherever the offending expression sits.
C1_Soundness ==
  phase = "runtimeError" => runtimeError \notin TypeTaggedErrors

\* C2: let polymorphism.  With let id = (x) => x, the uses id(l1) and id(l2)
\* in the same scope both type-check, whatever the types of l1 and l2; the
\* two results get the types of l1 and l2; id keeps the scheme
\* forall T. (T) => T; evaluation returns the second result.
C2_LetPolymorphism ==
  input.family = "poly" =>
    /\ typeError = ""
    /\ (input.position = "top" /\ ItemSolved) =>
         /\ Len(env["id"].typeVars) = 1
         /\ env["id"].type =
              functionType(<<env["id"].typeVars[1]>>, env["id"].typeVars[1])
    /\ (input.position = "top" /\ Inferred) =>
         /\ env["a"].type = LitType(input.lit)
         /\ env["b"].type = LitType(input.lit2)
    /\ (input.position = "block" /\ ItemSolved) =>
         /\ Len(GenOf("id").scheme.typeVars) = 1
         /\ GenOf("id").scheme.type =
              functionType(<<GenOf("id").scheme.typeVars[1]>>,
                           GenOf("id").scheme.typeVars[1])
         /\ Solve(GenOf("a").scheme.type) = LitType(input.lit)
         /\ Solve(GenOf("b").scheme.type) = LitType(input.lit2)
    /\ \A i, j \in 1..Len(calls) :
         i # j => TypeVarsOf(calls[i].funcType) \cap TypeVarsOf(calls[j].funcType) = {}
    /\ phase = "done" =>
         result = evaluateExpression(LitOf(input.lit2), globalEnv,
                                     createGlobalEnvironment).value

C2_Witness ==
  /\ input.family = "poly" /\ input.position = "top"
  /\ input.lit = "number" /\ input.lit2 = "string"
  /\ phase = "done"
  /\ env["a"].type = numberType /\ env["b"].type = stringType
  /\ result = VStr("hi")

\* the call site c hands a one-parameter function over a record R2 a record
\* R1 that has every field of R2, with the same field types
WidthCall(c) ==
  /\ c.funcType.kind = "FunctionType"
  /\ Len(c.funcType.paramTypes) = 1 /\ Len(c.expected.paramTypes) = 1
  /\ c.funcType.paramTypes[1].kind = "ObjectType"
  /\ c.expected.paramTypes[1].kind = "ObjectType"
  /\ LET R2 == c.funcType.paramTypes[1].fields
         R1 == c.expected.paramTypes[1].fields
     IN /\ FieldKeys(R2) \subseteq FieldKeys(R1)
        /\ \A k \in FieldKeys(R2) :
             \/ FieldGet(R2, k).kind = "TypeVar"
             \/ typesEqual(FieldGet(R1, k), FieldGet(R2, k))

\* C3: width subtyping at calls.  A function typed (R2) => T accepts a
\* record R1 that has every field of R2 with the same field types, extra
\* fields allowed: the subtype check at the call throws nothing, the item
\* type-checks, and the call's type is T.  So get = (p) => p.f applied to a
\* record with f gets the type of the field, and a function over the closed
\* record of the fields N, applied to a record with more fields, returns
\* the closed record over N.
C3_WidthSubtyping ==
  /\ \A i \in 1..Len(calls) :
       WidthCall(calls[i]) =>
         /\ calls[i].err = ""
         /\ ItemSolved =>
              typesEqual(Solve(calls[i].expected.returnType),
                         Solve(calls[i].funcType.returnType))
  /\ (input.family = "field" /\ input.position = "top"
        /\ input.field \in input.given) =>
       /\ typeError = ""
       /\ Inferred => env["r"].type = LitType(input.lit)
  /\ (input.family = "closed" /\ input.position = "top"
        /\ input.need \subseteq input.given) =>
       /\ typeError = ""
       /\ Inferred => typesEqual(env["r"].type, ClosedRecord(input.need, numberType))

C3_Witness ==
  /\ input.family = "closed" /\ input.position = "top"
  /\ input.need = {FieldNames[1]} /\ input.given = {FieldNames[1], FieldNames[2]}
  /\ phase = "infer" /\ pc = 3 /\ typeError = ""
  /\ Len(calls) = 1 /\ WidthCall(calls[1])
  /\ Len(calls[1].expected.paramTypes[1].fields) = 2
  /\ Len(calls[1].funcType.paramTypes[1].fields) = 1
  /\ env["r"].type = ClosedRecord({FieldNames[1]}, numberType)

\* C4: a program in which a function's body reads field f of its parameter
\* and a call passes a record without f fails type inference, with the
\* message 'missing fields'; it is never evaluated.
C4_MissingFieldRejected ==
  (input.family = "field" /\ input.field \notin input.given) =>
    /\ ~Inferred
    /\ phase = "typeError" => typeError = ErrMissingFields

\* does the variable id occur in the type below a function, array or
\* dictionary constructor (not only inside a record)?
RECURSIVE OccursUnguarded(_, _)
OccursUnguarded(id, type) ==
  CASE type.kind = "ArrayType" -> id \in TypeVarsOf(type)
    [] type.kind = "DictType" -> id \in TypeVarsOf(type)
    [] type.kind = "FunctionType" -> id \in TypeVarsOf(type)
    [] OTHER -> FALSE

\* C5: occurs check.  Inference of (g) => g(g) fails with 'Occurs check
\* failed' (as a top-level let, as a let in a block, as a bare expression),
\* and no solved substitution binds a variable to a function, array or
\* dictionary type that contains it: no infinite type is built.
C5_OccursCheck ==
  /\ input.family = "selfapp" =>
       \/ phase = "infer" /\ pc = 1 /\ typeError = ""
       \/ phase = "typeError" /\ pc = 1 /\ typeError = ErrOccurs
  /\ \A id \in DOMAIN substitution : ~OccursUnguarded(id, substitution[id])

C5_Witness ==
  /\ input.family = "selfapp" /\ input.position = "top"
  /\ phase = "typeError" /\ typeError = ErrOccurs
  /\ Len(constraints) > 0

\* the call site c passes, as argument i, a function over the record B
\* where the callee expects a function over the record A
FunctionArgument(c, i) ==
  /\ c.funcType.kind = "FunctionType"
  /\ Len(c.funcType.paramTypes) = Len(c.expected.paramTypes)
  /\ i \in 1..Len(c.funcType.paramTypes)
  /\ c.funcType.paramTypes[i].kind = "FunctionType"
  /\ c.expected.paramTypes[i].kind = "FunctionType"
ExpectedRecord(c, i) == c.funcType.paramTypes[i].paramTypes[1]
NeededRecord(c, i) == c.expected.paramTypes[i].paramTypes[1]
RecordArgument(c, i) ==
  /\ FunctionArgument(c, i)
  /\ Len(c.funcType.paramTypes[i].paramTypes) = 1
  /\ Len(c.expected.paramTypes[i].paramTypes) = 1
  /\ ExpectedRecord(c, i).kind = "ObjectType"
  /\ NeededRecord(c, i).kind = "ObjectType"

C7_GeneralizeAfterSolving ==
  ItemSolved =>
    \A i \in 1..Len(gens) :
      \A id \in Quantified(gens[i].scheme) \cap TypeVarsOf(gens[i].scheme.type) :
        id \in DOMAIN substitution =>
          substitution[id].kind \in {"TypeVar", "RowVar"}

\* C8: after inference, the type of every top-level name has no type
\* variable that its scheme does not quantify.
C8_SchemesClosed ==
  Inferred =>
    \A name \in DOMAIN env :
      TypeVarsOf(env[name].type) \subseteq Quantified(env[name])

\* C9: for every variable of a binding group, the type assumed for it
\* while the group was inferred equals, after solving, the body of the
\* scheme formed for it, and for a top-level group the body of the scheme
\* the environment ends with.
C9_AssumedIsFinal ==
  (phase = "infer" /\ pc > 1 /\ typeError = "") =>
    \A i \in 1..Len(gens) :
      /\ typesEqual(Solve(gens[i].assumed), Solve(gens[i].scheme.type))
      /\ (program[pc - 1].kind = "VariableDeclaration" /\ ~gens[i].nested) =>
           typesEqual(Solve(gens[i].assumed), env[gens[i].name].type)

\* C10: when solving succeeds, every field-access constraint of the item is
\* discharged: the solved object type is a record that has the field, at
\* the solved field type.
C10_FieldAccessDischarged ==
  ItemSolved =>
    \A i \in 1..Len(solved) :
      LET object == Solve(solved[i].objectType)
      IN /\ object.kind = "ObjectType"
         /\ FieldHas(object.fields, solved[i].fieldName)
         /\ typesEqual(FieldGet(object.fields, solved[i].fieldName),
                       Solve(solved[i].fieldType))

\* C11: structural join at `if`.  When both branches are records with a
\* common field, the conditional's type is the closed record over exactly
\* the common fields: the scheme of v = if (c) { A } else { B } has that
\* type, reading a common field of v type-checks (with the field's type,
\* and evaluates to the then branch's field), and reading a field that only
\* one branch has is the type error 'Property does not exist'.
C11_StructuralJoin ==
  (input.family = "join" /\ input.need \cap input.given # {}) =>
    /\ \A i \in 1..Len(gens) :
         gens[i].name = "v" =>
           typesEqual(gens[i].scheme.type,
                      ClosedRecord(input.need \cap input.given, numberType))
    /\ (input.position = "top" /\ pc > 1) =>
         typesEqual(env["v"].type,
                    ClosedRecord(input.need \cap input.given, numberType))
    /\ IF input.field \in input.need \cap input.given
       THEN /\ typeError = ""
            /\ (Inferred /\ input.position = "top") => env["r"].type = numberType
            /\ phase # "runtimeError"
            /\ phase = "done" => result = VNum(1)
       ELSE /\ ~Inferred
            /\ phase = "typeError" => typeError = ErrNoProperty

C11_Witness ==
  /\ input.family = "join" /\ input.position = "top"
  /\ input.need = {FieldNames[1], FieldNames[2]}
  /\ input.given = {FieldNames[1], FieldNames[3]}
  /\ input.field = FieldNames[2]
  /\ phase = "typeError" /\ typeError = ErrNoProperty /\ pc = 2
  /\ env["v"].type = ClosedRecord({FieldNames[1]}, numberType)

\* C12: a dictionary with number keys that is bound to a variable can be
\* indexed with a number: let m = [1: v, 2: v]; let first = m[1]
\* type-checks, and first has the dictionary's value type.
C12_NumberKeyDictionary ==
  (input.family = "dict" /\ input.lit = "number" /\ input.position = "top") =>
    /\ typeError = ""
    /\ (phase = "infer" /\ pc > 2) => env["first"].type = LitType(input.lit2)

\* C13: a let annotation is enforced against the initializer.
\* let nums: [k] = [e, e, e] type-checks when the elements have the kind k
\* (nums then has the type [k], and over the numbers 1, 2, 3 the sum
\* nums[0] + nums[1] + nums[2] evaluates to 6), and fails type-checking when
\* they have another kind, as [1, 2, 3] annotated Array<string> does.
C13_AnnotationEnforced ==
  input.family = "annot" =>
    IF input.lit = input.lit2
    THEN /\ typeError = ""
         /\ (input.position = "top" /\ pc > 1) =>
              env["nums"].type = arrayType(LitType(input.lit))
         /\ phase # "runtimeError"
         /\ (phase = "done" /\ input.lit = "number") => result = VNum(6)
    ELSE /\ ~Inferred
         /\ phase = "typeError" => typeError = ErrCannotUnify

C13_Witness ==
  /\ input.family = "annot" /\ input.lit = "string" /\ input.lit2 = "number"
  /\ phase = "typeError" /\ typeError = ErrCannotUnify /\ pc = 1

\* C14: inference rejects a record that refers to itself through data:
\* inferring let selfRef = { self: selfRef } raises a TypeError, so the
\* program never leaves inference of its first item without one.
C14_SelfReferenceRejected ==
  input.family = "selfref" =>
    \/ phase = "infer" /\ pc = 1
    \/ phase = "typeError" /\ pc = 1

\* C15: evaluating a let whose non-function initializer reads the name
\* being bound (let selfRef = { self: selfRef }) fails with the runtime
\* error 'referenced before initialization', whereas a function literal
\* that mentions its own name, or another name of its group, evaluates
\* without a runtime error and can recurse (even(2) is true).
C15_UninitializedRead ==
  /\ (input.family = "selfref" /\ Inferred) =>
       /\ phase # "done"
       /\ phase = "runtimeError" =>
            runtimeError = "referenced before initialization"
  /\ input.family \in {"recur", "mutual"} =>
       /\ phase # "runtimeError"
       /\ (phase = "done" /\ input.family = "recur") => result = VBool(TRUE)

\* C16: a match returns the body of the first case, in source order, whose
\* pattern matches the discriminant and whose guard, if present, is truthy;
\* a case whose guard is falsy is skipped even when its pattern is an
\* identifier.  So match d { x if x < 0 => "neg", 0 => "zero", _ => "pos" }
\* type-checks and yields "neg" for -1, "zero" for 0 and "pos" for 5.
C16_MatchGuards ==
  input.family = "match" =>
    /\ typeError = ""
    /\ phase # "runtimeError"
    /\ phase = "done" => result = VStr(input.lit)

\* C17: && and || short-circuit.  In a && b the operand b is not evaluated
\* when a is falsy, and in a || b it is not evaluated when a is truthy, so
\* a runtime error in b cannot occur: false && (1 / 0 == 0) is false and
\* true || (1 / 0 == 0) is true.
C17_ShortCircuit ==
  (input.family = "logic"
     /\ input.lit2 = (IF input.lit = "&&" THEN "false" ELSE "true")) =>
    /\ phase # "runtimeError"
    /\ phase = "done" => result = VBool(input.lit2 = "true")

\* C18: nothing of a program is evaluated unless inference of the whole
\* program has completed without a TypeError: while inference runs or after
\* it failed, the evaluator's environment, result and error are untouched;
\* once evaluation has started, no TypeError was raised, no constraint is
\* left unsolved and every top-level let of the program has its type in the
\* environment infer returned.
C18_InferenceGatesEvaluation ==
  /\ phase \in {"infer", "typeError"} =>
       /\ heap = createGlobalEnvironment
       /\ result = VNull
       /\ runtimeError = ""
  /\ phase \in {"evaluate", "runtimeError", "done"} =>
       /\ typeError = ""
       /\ constraints = <<>>
       /\ fieldAccessConstraints = <<>>
       /\ DeclaredNames(program) \subseteq DOMAIN env

\* a later item of the program is ill-typed: the items before it were
\* inferred, and none of them was evaluated
C18_Witness ==
  /\ phase = "typeError"
  /\ pc > 1
  /\ program[1].kind = "VariableDeclaration"
  /\ heap = createGlobalEnvironment

\* C19: an inferAndSolve call does not depend on the calls made before on
\* the same inferrer: it starts with both constraint lists empty, and the
\* line let id = (x) => x; let n = id(1); let k = length(["s"]) is accepted
\* with n: number and k: number, as it is by a new inferrer, whatever lines
\* came before, those that ended in a TypeError included.
C19_InvocationsIndependent ==
  input = Line =>
    /\ (phase = "infer" /\ pc = 1) =>
         constraints = <<>> /\ fieldAccessConstraints = <<>>
    /\ typeError = ""
    /\ phase # "infer" =>
         /\ env["n"].type = numberType
         /\ env["k"].type = numberType

\* the ids of the type variables of the built-in schemes
BuiltinTypeVarIds ==
  UNION {{createInitialEnv[name].typeVars[i].id :
            i \in 1..Len(createInitialEnv[name].typeVars)} :
          name \in BuiltinNames}

\* C20: no two type variables of a run have the same id: the ids handed out
\* by freshTypeVar and instantiate (0 .. typeVarCounter - 1) are distinct by
\* construction, and none of them is the id of a type variable of the
\* built-in schemes.
C20_UniqueIds ==
  \A id \in BuiltinTypeVarIds : id \notin 0..(typeVarCounter - 1)

\* the types a solved substitution is applied to: the variables it binds,
\* the types it binds them to, and the types of the environment
SolvedTypes ==
  {TypeVar(id) : id \in DOMAIN substitution}
  \cup {substitution[id] : id \in DOMAIN substitution}
  \cup {env[name].type : name \in DOMAIN env}

\* C21: the substitution returned by a successful solveConstraints is
\* idempotent: applying it twice to a type gives what applying it once gives.
C21_SubstitutionIdempotent ==
  ItemSolved =>
    \A type \in SolvedTypes :
      applySubstitution(substitution, applySubstitution(substitution, type))
        = applySubstitution(substitution, type)

\* the ids of the type variables that are free in a scheme of the
\* environment
FreeInEnv(typeEnv) ==
  UNION {TypeVarsOf(typeEnv[name].type) \ Quantified(typeEnv[name]) :
           name \in DOMAIN typeEnv}

\* C23: every scheme generalize forms quantifies exactly the ids of the type
\* variables that occur in the type and are free in no scheme of the
\* environment: the id of a row variable is not among them, nor a variable
\* free in the environment, and no such type variable is missing.
C23_GeneralizeExact ==
  \A i \in 1..Len(gens) :
    Quantified(gens[i].scheme)
      = TypeVarsOf(gens[i].scheme.type) \ FreeInEnv(gens[i].env)

\* the instance of a scheme, with the fresh variables the next call of
\* instantiate would create
Instance(scheme) ==
  instantiate(scheme, [tv |-> typeVarCounter, err |-> ""]).type

\* C22: generalization round trip.  For every scheme generalize formed from
\* a type in an environment, an instance of the scheme unifies with that
\* type without an error.
C22_GeneralizeRoundTrip ==
  \A i \in 1..Len(gens) :
    unify(Instance(gens[i].scheme), gens[i].scheme.type).err = ""

\* a scheme that quantifies a variable of its type was formed: its instance
\* differs from the type, and unification binds the fresh variable
C22_Witness ==
  \E i \in 1..Len(gens) :
    /\ Quantified(gens[i].scheme) \cap TypeVarsOf(gens[i].scheme.type) # {}
    /\ Instance(gens[i].scheme) # gens[i].scheme.type
    /\ unify(Instance(gens[i].scheme), gens[i].scheme.type).sub # EmptySub

\* C24: the name an identifier pattern binds is local to its case.  After
\* let x = 10; let f = () => x; let m = match 5 { x => x + 1 } the variable
\* x of the enclosing scope is still 10, and so is what the closure f, made
\* before the match, returns.
C24_PatternScope ==
  (input.family = "shadow" /\ phase = "done") => result = VNum(10)

\* C25: a read of a name gives the value of the nearest frame that defines
\* it, also when that value is undefined.  let u = undefined; u evaluates to
\* undefined, and so does let u = 1; { let u = undefined; u }: neither fails,
\* and the second does not give the outer 1.
C25_NearestFrame ==
  input.family = "undef" =>
    /\ phase # "runtimeError"
    /\ phase = "done" => result = VUndefined

\* C26: inferring a top-level item leaves the scheme of every name that an
\* earlier item bound as it was: only the names the item itself binds get
\* a scheme.
C26_SchemesStable ==
  [][(phase = "infer" /\ phase' = "infer") =>
       \A name \in DOMAIN env \ DeclaredNames(<<program[pc]>>) :
         env'[name] = env[name]]_vars

RECURSIVE RowVarAsType(_)
\* does a row variable stand where the type has a type: as the type itself,
\* as a parameter, result, element, key, value or field type (the tail of
\* a record is where row variables belong)
RowVarAsType(type) ==
  CASE type.kind = "RowVar" -> TRUE
    [] type.kind = "ArrayType" -> RowVarAsType(type.elementType)
    [] type.kind = "DictType" ->
         RowVarAsType(type.keyType) \/ RowVarAsType(type.valueType)
    [] type.kind = "FunctionType" ->
         \/ \E i \in 1..Len(type.paramTypes) : RowVarAsType(type.paramTypes[i])
         \/ RowVarAsType(type.returnType)
    [] type.kind = "ObjectType" ->
         \E i \in 1..Len(type.fields) : RowVarAsType(type.fields[i].type)
    [] OTHER -> FALSE

\* C27: type variables and row variables have separate ids: the entry that
\* unifying two row variables puts into the substitution does not rewrite
\* the type variable with the same number, so no type of the environment
\* has a row variable where a type variable was, and the program with
\* let fs = [get2, get1] between let id = (x) => x and id(1) is accepted.
C27_SeparateIdSpaces ==
  /\ \A name \in DOMAIN env : ~RowVarAsType(env[name].type)
  /\ input.family = "rows" => typeError = ""

\* some call replaced the source of one of the modules by loadModuleFromSource
Replaced(modules) ==
  \E c \in Callers :
    outcome[c].call = "loadModuleFromSource" /\ outcome[c].path \in modules

\* C28: a loadModule call on a module that directly or transitively imports
\* itself ends, and it ends with the 'Circular import detected' error
\* (as long as the modules of the cycle are the ones of the files)
C28_CircularImportTerminates ==
  \A c \in Callers :
    (/\ outcome[c].call = "loadModule"
     /\ stacks[c] # <<>>
     /\ outcome[c].path \in Dependencies(outcome[c].path)
     /\ ~Replaced(Dependencies(outcome[c].path)))
    ~> (\/ Replaced(Dependencies(outcome[c].path))
        \/ /\ stacks[c] = <<>>
           /\ outcome[c].result = Thrown(ErrCircular))

\* a imports b, b imports a, and loadModule of a has ended with the error
C28_Witness ==
  /\ files["a"].imports = <<ImportDecl("b")>>
  /\ files["b"].imports = <<ImportDecl("a")>>
  /\ \E c \in Callers :
       /\ outcome[c] = [call |-> "loadModule", path |-> "a",
                        result |-> Thrown(ErrCircular)]
       /\ stacks[c] = <<>>
       /\ \A d \in Callers \ {c} : ~started[d]

\* C29: a loadModule call ends with 'Circular import detected' only if the
\* module it loads, or one of the modules that module imports directly or
\* transitively, imports itself
C29_CircularOnlyForCycles ==
  \A c \in Callers :
    (/\ outcome[c].call = "loadModule"
     /\ outcome[c].result = Thrown(ErrCircular))
    => \E p \in {outcome[c].path} \cup Dependencies(outcome[c].path) :
         p \in Dependencies(p)

\* the record is the one that complete inference and evaluation of its
\* module's body give
Complete(record) ==
  With(runModule(Frame(record.path, Source(<<>>, record.body), ""),
                 [cache |-> << >>, loading |-> {}, tv |-> 0, rv |-> 0]).result,
    LAMBDA whole :
      /\ whole.kind = "record"
      /\ DOMAIN record.typeExports = DOMAIN whole.record.typeExports
      /\ record.valueExports = whole.record.valueExports
      /\ record.lastValue = whole.record.lastValue)

\* C30: while no load call is in flight the in-progress set is empty; every
\* cached record is that of a completely type-checked and evaluated module;
\* a call that failed, with no other call made, left no cache entry
C30_IdleLoaderClean ==
  /\ (\A c \in Callers : stacks[c] = <<>>) => loading = {}
  /\ \A p \in DOMAIN cache : cache[p].path = p /\ Complete(cache[p])
  /\ \A c \in Callers :
       (/\ stacks[c] = <<>>
        /\ outcome[c].result.kind = "error"
        /\ \A d \in Callers \ {c} : ~started[d])
       => outcome[c].path \notin DOMAIN cache

\* loadModule of c failed on c's ill-typed body, and afterwards c was loaded
\* from a well-typed source: the loader is idle, c is cached
C30_Witness ==
  /\ files["c"].body = "illTyped"
  /\ outcome[1].call = "loadModule"
  /\ outcome[1].path = "c"
  /\ outcome[1].result.kind = "error"
  /\ outcome[2].call = "loadModuleFromSource"
  /\ outcome[2].path = "c"
  /\ outcome[2].result.kind = "record"
  /\ "c" \in DOMAIN cache
  /\ loading = {}
  /\ \A c \in Callers : stacks[c] = <<>>

====
